---- MODULE Spec2Model ----
(***************************************************************************)
(* Dispatch-and-coordination core of axum_backend:                         *)
(*   - the cache-backed DistributedLock (SET .. PX .. NX / compare-delete) *)
(*   - the cache-backed sliding-window RateLimiter (one EVAL per check)    *)
(*   - the ActorPool of UserServiceActor workers and the gRPC dispatch     *)
(*     facade (UserServiceImpl::get_user / create_user).                   *)
(* Time is counted in ticks.  Durations of the program (lock ttl, rate     *)
(* window, dispatch deadline) are scaled down to a few ticks.              *)
(***************************************************************************)
EXTENDS Integers, Sequences, FiniteSets, TLC

(***************************************************************************)
(* Bounds of the model                                                     *)
(***************************************************************************)
\* ttl of a lock in ticks (register.rs:70 uses 10 s, locking.rs:24 uses 5 s)
LockTtl == 2

\* The lock instances.  Each stands for one DistributedLock value; its token
\* (`value`) is the instance's own name: register.rs:69 draws a fresh uuid
\* per execution, locking.rs:23,35 uses two different literals.
Owners == {"A", "B", "C"}

\* The keys the lock instances are constructed with.
LockKeys == {"k1", "k2"}

\* The server processes that call RateLimiter::check, and the key they check.
RateProcs == {"p1", "p2", "p3"}

RateKeys == {"ratelimit:u1"}

\* check(key, limit, window): the limit and the window (seconds) of the calls.
Limit == 2

Window == 1

\* Ticks per second (rate_limiter.rs:25 counts 1000 ms per second).
TicksPerSecond == 2

\* How far a caller's clock may be ahead of the cache's tick, in ticks.
Skews == {0, 1}

\* A request stays in flight for at most this many ticks.
MaxDelay == 1

\* ActorPool::new(pool_size, ..): the pool sizes a run may be built with.
MaxPool == 3

\* The tasks that call next_worker directly, and how many calls they make.
Tasks == {"t1", "t2"}

MaxCalls == 7

\* The pool sizes of the runs with dispatches.
PoolSizes == {1, 2}

\* The dispatches (get_user / create_user calls, health probes) of a run.
MaxReq == 2

\* Ticks of the dispatch deadline (5 s, user_service.rs:66 and :104).
Deadline == 2

\* Ticks within which an operation returns unless its unit is running slow.
MaxOp == 1

\* Saves of the user's row the model follows (each save is a new version).
MaxVersion == 2

\* Concurrent GetUserUseCase executions, and update / delete executions.
GetProcs == {"g1", "g2"}

WriterProcs == {"u1"}

VARIABLES
    pool_size,      \* workers.len() of the pool
    current_index,  \* ActorPool.current_index
    tpc,            \* a next_worker caller: idle / fetched (between fetch_add and return)
    fetched,        \* the cursor value the caller's fetch_add returned
    picks,          \* the indices next_worker returned, in the order of return
    overlapped,     \* two next_worker calls were in flight at the same time
    mailbox,        \* the queue of each worker unit (dispatch ids, oldest first)
    handling,       \* the dispatch whose message the unit's handler is in; 0: none
    opTime,         \* ticks the operation in the handler has taken so far
    slow,           \* the operation in the handler is past MaxOp and may never return
    request_count,  \* UserServiceState.request_count of each unit
    status,         \* the unit's actor: running / stopped
    stop_requested, \* stop(None) was called on the unit's actor
    atShutdown,     \* the dispatches queued or in a handler when shutdown() ran
    aborted,        \* the dispatches whose handler was cut off by a failure
    rq_pc,          \* a dispatch: new / picked / waiting / done
    rq_kind,        \* the message of the dispatch
    target,         \* the index next_worker returned to the dispatch
    slot,           \* the reply slot: none / empty / a value / taken / rx_dropped /
                    \* tx_dropped (the message was dropped unanswered) / unsent
    waited,         \* ticks the caller has waited on the empty slot
    outcome,        \* what the dispatch returned to its caller
    ahead,          \* messages before this one at its unit when it was enqueued
    late,           \* the unit ran slow while this message was queued or handled
    sends,          \* reply.send calls made for the message
    written,        \* values written into the message's slot
    handled,        \* handle() has returned for the message
    rpc,         \* where each check() caller is: idle / checking
    rnow,        \* the `now` the call in flight read from its clock
    rret,        \* what the caller's last check() returned
    rsaw,        \* admissions inside the window when the last check() was executed
    admitted,    \* admitted[a]: how many checks were admitted a ticks ago
    store,       \* the cache: key -> record (NoRecord, or a string with a pttl)
    lock_key,    \* DistributedLock.key of each instance
    lpc,         \* where each instance's caller is: idle / acquiring / releasing
    last,        \* the instance's last completed call and what it returned
    heldFor,     \* ticks since the instance was granted the key; -1: not held
    lapsed,      \* the instance's last grant ran out by ttl, without a release
    new_pc,      \* ActorPool::new: idle / spawning / ok / err
    new_n,       \* its pool_size argument
    new_i,       \* how many times its loop has called Actor::spawn
    spawned,     \* how many of those calls returned an actor
    reg_pc,      \* where each RegisterUseCase::execute is
    reg_ret,     \* what each execute returned
    users,       \* the users table: records [id, email]
    reg_acquired, \* the execution was granted the registration lock
    reg_released, \* the execution called release on its lock
    reg_raced,   \* the execution's insert was refused as a duplicate
    reg_lapsed,  \* a registration lock ran out by ttl
    hmsg,        \* the GetUser / CreateUser messages given to the user actors
    hworker,     \* the message in each user actor's handler, or "idle"
    hlog,        \* the messages each user actor has handled, in order
    user_row,    \* the users row of the user: its version, or NoUser
    get_pc,      \* where each GetUserUseCase::execute is: idle / cache / db / set
    get_read,    \* the user its find_by_id returned
    get_ret,     \* what the execution returned
    get_clean,   \* no update or delete has started since the execution began
    wr_pc,       \* where each update / delete execution is: idle / find / save / invalidate
    wr_op,       \* the use case it runs: update / delete
    wr_user,     \* the user its find_by_id returned
    wr_ret,      \* what the execution returned
    wr_completed \* an update or delete execution has returned

lockVars == <<lock_key, lpc, last, heldFor, lapsed>>

rateVars == <<rpc, rnow, rret, rsaw, admitted>>

newVars == <<new_pc, new_n, new_i, spawned>>

cursorVars == <<pool_size, current_index, tpc, fetched, picks, overlapped, newVars>>

lifeVars == <<status, stop_requested, atShutdown, aborted>>

workerVars == <<mailbox, handling, opTime, slow, request_count, lifeVars>>

dispatchVars == <<rq_pc, rq_kind, target, slot, waited, outcome, ahead, late,
                  sends, written, handled>>

poolVars == <<cursorVars, workerVars, dispatchVars>>

regVars == <<reg_pc, reg_ret, users, reg_acquired, reg_released, reg_raced, reg_lapsed>>

handlerVars == <<hmsg, hworker, hlog>>

useCaseVars == <<user_row, get_pc, get_read, get_ret, get_clean,
                 wr_pc, wr_op, wr_user, wr_ret, wr_completed>>

vars == <<store, lockVars, rateVars, poolVars, regVars, handlerVars, useCaseVars>>

(***************************************************************************)
(* The cache (Redis) as the repository uses it                             *)
(***************************************************************************)
\* Timestamps are kept relative to the present tick: a stored score or an
\* argument t stands for the absolute timestamp (present + t), and a tick
\* lowers every one of them by one.
NoRecord == [kind |-> "none"]

ZsetRecord(members, pttl) == [kind |-> "zset", members |-> members, pttl |-> pttl]

StringRecord(value, pttl) == [kind |-> "string", value |-> value, pttl |-> pttl]

\* The value GET returns: the stored string, or "nil".
Get(st, key) == IF st[key].kind = "string" THEN st[key].value ELSE "nil"

\* SET key value PX ttl NX: creates the record only when the key is absent.
\* The reply is the bulk "OK" (Some) when set and nil (None) when not;
\* set_nx returns Ok(v.is_some()).
set_nx_overwrite(st, key, value, ttl) ==
    [store |-> [st EXCEPT ![key] = StringRecord(value, ttl)], reply |-> TRUE]

set_nx_no_expiry(st, key, value, ttl) ==
    IF st[key].kind = "none"
    THEN [store |-> [st EXCEPT ![key] = StringRecord(value, -1)], reply |-> TRUE]
    ELSE [store |-> st, reply |-> FALSE]

\* A re-entrant SET: the holder's own token renews the ttl of its record.
set_nx_renewing(st, key, value, ttl) ==
    IF st[key].kind = "none"
    THEN [store |-> [st EXCEPT ![key] = StringRecord(value, ttl)], reply |-> TRUE]
    ELSE IF Get(st, key) = value
    THEN [store |-> [st EXCEPT ![key] = StringRecord(value, ttl)], reply |-> FALSE]
    ELSE [store |-> st, reply |-> FALSE]

set_nx(st, key, value, ttl) ==
    IF st[key].kind = "none"
    THEN [store |-> [st EXCEPT ![key] = StringRecord(value, ttl)], reply |-> TRUE]
    ELSE [store |-> st, reply |-> FALSE]

\* EVAL of: if redis.call("get", KEYS[1]) == ARGV[1] then return
\* redis.call("del", KEYS[1]) else return 0 end; Ok(count == 1).
delete_if_equals_blind(st, key, value) ==
    IF st[key].kind = "none"
    THEN [store |-> st, reply |-> FALSE]
    ELSE [store |-> [st EXCEPT ![key] = NoRecord], reply |-> TRUE]

delete_if_equals_keep(st, key, value) ==
    [store |-> st, reply |-> Get(st, key) = value]

delete_if_equals(st, key, value) ==
    IF Get(st, key) = value
    THEN [store |-> [st EXCEPT ![key] = NoRecord], reply |-> TRUE]
    ELSE [store |-> st, reply |-> FALSE]

\* One tick of the cache's clock: every expiring record loses one tick of
\* its pttl and is removed when none is left (pttl -1: no expiry set).
Aged(rec) ==
    IF rec.kind = "zset"
    THEN [rec EXCEPT !.members = {m - 1 : m \in rec.members}]
    ELSE rec

Expire(rec) ==
    IF rec.kind = "none" \/ rec.pttl = -1 THEN Aged(rec)
    ELSE IF rec.pttl <= 1 THEN NoRecord
    ELSE [Aged(rec) EXCEPT !.pttl = rec.pttl - 1]

(***************************************************************************)
(* DistributedLock                                                         *)
(***************************************************************************)
Holding(o) == heldFor[o] >= 0

\* The instance that holds key k, or "nobody".
HolderOf(k) ==
    IF \E o \in Owners : lock_key[o] = k /\ Holding(o)
    THEN CHOOSE o \in Owners : lock_key[o] = k /\ Holding(o)
    ELSE "nobody"

NoCall == [op |-> "none", ret |-> "none", removed |-> "none", saw |-> "none"]

LockInit ==
    /\ lock_key \in [Owners -> LockKeys]
    /\ lpc = [o \in Owners |-> "idle"]
    /\ last = [o \in Owners |-> NoCall]
    /\ heldFor = [o \in Owners |-> -1]
    /\ lapsed = [o \in Owners |-> FALSE]

\* acquire() is called: the SET request is on its way to the cache.
AcquireCall(o) ==
    /\ lpc[o] = "idle"
    /\ lpc' = [lpc EXCEPT ![o] = "acquiring"]
    /\ last' = [last EXCEPT ![o] = NoCall]
    /\ UNCHANGED <<store, lock_key, heldFor, lapsed, rateVars>>
    /\ UNCHANGED <<poolVars, regVars, handlerVars, useCaseVars>>

\* The cache executes the SET and acquire() returns Ok(created).
\* saw: who held the key when the SET was executed.
AcquireReturn(o) ==
    /\ lpc[o] = "acquiring"
    /\ LET r == set_nx(store, lock_key[o], o, LockTtl) IN
         /\ store' = r.store
         /\ last' = [last EXCEPT ![o] =
                       [op |-> "acquire",
                        ret |-> IF r.reply THEN "true" ELSE "false",
                        removed |-> "none",
                        saw |-> HolderOf(lock_key[o])]]
         /\ heldFor' = [heldFor EXCEPT ![o] = IF r.reply THEN 0 ELSE @]
         /\ lapsed' = [lapsed EXCEPT ![o] = IF r.reply THEN FALSE ELSE @]
    /\ lpc' = [lpc EXCEPT ![o] = "idle"]
    /\ UNCHANGED <<lock_key, rateVars>>
    /\ UNCHANGED <<poolVars, regVars, handlerVars, useCaseVars>>

\* The cache call fails (CacheError::Redis): acquire() returns Err.
AcquireError_fail_closed(o) ==
    /\ lpc[o] = "acquiring"
    /\ lpc' = [lpc EXCEPT ![o] = "idle"]
    /\ last' = [last EXCEPT ![o] =
                  [op |-> "acquire", ret |-> "false", removed |-> "none", saw |-> "none"]]
    /\ UNCHANGED <<store, lock_key, heldFor, lapsed, rateVars>>
    /\ UNCHANGED <<poolVars, regVars, handlerVars, useCaseVars>>

AcquireError(o) ==
    /\ lpc[o] = "acquiring"
    /\ lpc' = [lpc EXCEPT ![o] = "idle"]
    /\ last' = [last EXCEPT ![o] =
                  [op |-> "acquire", ret |-> "err", removed |-> "none", saw |-> "none"]]
    /\ UNCHANGED <<store, lock_key, heldFor, lapsed, rateVars>>
    /\ UNCHANGED <<poolVars, regVars, handlerVars, useCaseVars>>

\* release() is called: the EVAL request is on its way to the cache.
ReleaseCall(o) ==
    /\ lpc[o] = "idle"
    /\ lpc' = [lpc EXCEPT ![o] = "releasing"]
    /\ last' = [last EXCEPT ![o] = NoCall]
    /\ UNCHANGED <<store, lock_key, heldFor, lapsed, rateVars>>
    /\ UNCHANGED <<poolVars, regVars, handlerVars, useCaseVars>>

\* The cache executes the script; delete_if_equals returns Ok(removed), and
\* release() drops that bool and returns Ok(()).
\* saw: the token stored under the key when the script was executed.
ReleaseReturn(o) ==
    /\ lpc[o] = "releasing"
    /\ LET r == delete_if_equals(store, lock_key[o], o) IN
         /\ store' = r.store
         /\ last' = [last EXCEPT ![o] =
                       [op |-> "release",
                        ret |-> "unit",
                        removed |-> IF r.reply THEN "true" ELSE "false",
                        saw |-> Get(store, lock_key[o])]]
         /\ heldFor' = [heldFor EXCEPT ![o] = IF r.reply THEN -1 ELSE @]
    /\ lpc' = [lpc EXCEPT ![o] = "idle"]
    /\ UNCHANGED <<lock_key, lapsed, rateVars>>
    /\ UNCHANGED <<poolVars, regVars, handlerVars, useCaseVars>>

\* The cache call fails: release() returns Err through the `?`.
ReleaseError(o) ==
    /\ lpc[o] = "releasing"
    /\ lpc' = [lpc EXCEPT ![o] = "idle"]
    /\ last' = [last EXCEPT ![o] =
                  [op |-> "release", ret |-> "err", removed |-> "none", saw |-> "none"]]
    /\ UNCHANGED <<store, lock_key, heldFor, lapsed, rateVars>>
    /\ UNCHANGED <<poolVars, regVars, handlerVars, useCaseVars>>

(***************************************************************************)
(* RateLimiter                                                             *)
(***************************************************************************)
\* The statements of the script of rate_limiter.rs:33-48, by the word each
\* begins with: redis.call(..) on line 35, `let count = ..` on line 38, and
\* the if .. then .. else .. end of lines 40-47.
ScriptStatements == <<"call", "let", "if">>

\* What a statement of Lua 5.1 (the cache's script engine) may begin with: a
\* function call, an assignment to a name, or one of the keywords.  `let` is
\* no keyword: `let count = ..` reads as the name `let` followed by the name
\* `count`, which is a syntax error ('=' expected near 'count').
LuaStatementHeads ==
    {"call", "assign", "local", "if", "return", "for", "while", "repeat", "do",
     "function", "break"}

ScriptCompiles ==
    \A i \in DOMAIN ScriptStatements : ScriptStatements[i] \in LuaStatementHeads

Members(st, key) == IF st[key].kind = "zset" THEN st[key].members ELSE {}

\* A sorted set without members does not exist as a key.
Zset(members, pttl) ==
    IF members = {} THEN NoRecord ELSE ZsetRecord(members, pttl)

\* The script without its test of the count.
RunScript_uncounted(st, key, now, clear_before, window_ms, limit) ==
    LET kept == {m \in Members(st, key) : ~(m <= clear_before)}
    IN  [store |-> [st EXCEPT ![key] = ZsetRecord(kept \cup {now}, window_ms)],
         ok |-> TRUE, reply |-> 1]

\* What the script does once it runs:
\*   ZREMRANGEBYSCORE key 0 clear_before; count = ZCARD key;
\*   if count < limit then ZADD key now now; PEXPIRE key window_ms; return 1
\*   else return 0.
\* The member of an entry is its score, so an entry for a timestamp that is
\* already a member adds nothing.
RunScript(st, key, now, clear_before, window_ms, limit) ==
    LET kept == {m \in Members(st, key) : ~(m <= clear_before)}
        pttl == IF st[key].kind = "zset" THEN st[key].pttl ELSE -1
    IN  IF Cardinality(kept) < limit
        THEN [store |-> [st EXCEPT ![key] = ZsetRecord(kept \cup {now}, window_ms)],
              ok |-> TRUE, reply |-> 1]
        ELSE [store |-> [st EXCEPT ![key] = Zset(kept, pttl)], ok |-> TRUE, reply |-> 0]

\* EVAL: a script that does not compile is rejected as a whole (the reply is
\* an error and no command of it is executed); eval_script maps the error
\* reply to Err(CacheError::Redis).
eval_script(st, key, now, clear_before, window_ms, limit) ==
    IF ScriptCompiles
    THEN RunScript(st, key, now, clear_before, window_ms, limit)
    ELSE [store |-> st, ok |-> FALSE, reply |-> 0]

\* check's match on the result of eval_script: Err(e) is handed on, Ok(1)
\* is Ok(true) and every other value is Ok(false).
check_result_fail_open(ok, reply) ==
    IF ok /\ reply # 1 THEN "denied" ELSE "admitted"

check_result(ok, reply) ==
    IF ~ok THEN "err_reply"
    ELSE IF reply = 1 THEN "admitted"
    ELSE "denied"

window_ms == Window * TicksPerSecond

RECURSIVE Sum(_, _)
Sum(f, n) == IF n < 0 THEN 0 ELSE f[n] + Sum(f, n - 1)

\* The checks admitted during the last window_ms ticks.
AdmittedInWindow == Sum(admitted, window_ms - 1)

RateInit ==
    /\ rpc = [p \in RateProcs |-> "idle"]
    /\ rnow = [p \in RateProcs |-> 0]
    /\ rret = [p \in RateProcs |-> "none"]
    /\ rsaw = [p \in RateProcs |-> 0]
    /\ admitted = [a \in 0 .. (window_ms - 1) |-> 0]

\* check() reads `now` from its process's clock and sends the EVAL.
CheckCall(p) ==
    /\ rpc[p] = "idle"
    /\ \E skew \in Skews : rnow' = [rnow EXCEPT ![p] = skew]
    /\ rpc' = [rpc EXCEPT ![p] = "checking"]
    /\ rret' = [rret EXCEPT ![p] = "none"]
    /\ rsaw' = [rsaw EXCEPT ![p] = 0]
    /\ UNCHANGED <<store, lockVars, admitted>>
    /\ UNCHANGED <<poolVars, regVars, handlerVars, useCaseVars>>

\* The cache evaluates the script in one step and check() returns.
CheckReturn(p, key) ==
    /\ rpc[p] = "checking"
    /\ LET r == eval_script(store, key, rnow[p], rnow[p] - window_ms, window_ms, Limit)
           ret == check_result(r.ok, r.reply)
       IN  /\ store' = r.store
           /\ rret' = [rret EXCEPT ![p] = ret]
           /\ admitted' = IF ret = "admitted"
                          THEN [admitted EXCEPT ![0] = @ + 1]
                          ELSE admitted
    /\ rsaw' = [rsaw EXCEPT ![p] = AdmittedInWindow]
    /\ rpc' = [rpc EXCEPT ![p] = "idle"]
    /\ rnow' = [rnow EXCEPT ![p] = 0]
    /\ UNCHANGED lockVars
    /\ UNCHANGED <<poolVars, regVars, handlerVars, useCaseVars>>

\* The connection to the cache fails: check() returns Err.
CheckIoError(p) ==
    /\ rpc[p] = "checking"
    /\ rret' = [rret EXCEPT ![p] = "err_io"]
    /\ rpc' = [rpc EXCEPT ![p] = "idle"]
    /\ rnow' = [rnow EXCEPT ![p] = 0]
    /\ UNCHANGED <<store, lockVars, rsaw, admitted>>
    /\ UNCHANGED <<poolVars, regVars, handlerVars, useCaseVars>>

(***************************************************************************)
(* ActorPool: the round-robin cursor                                       *)
(***************************************************************************)
\* The cursor is an AtomicUsize: it counts modulo 2^w (w scaled down to 4).
UsizeModulus == 16

WorkerIds == 0 .. (MaxPool - 1)

Reqs == 1 .. MaxReq

\* fetch_add(1, Relaxed): the new value of the cursor.
fetch_add_lost(cursor) == cursor

fetch_add(cursor) == (cursor + 1) % UsizeModulus

\* next_worker: the index computed from the value fetch_add returned, which
\* is the value of the cursor before the addition.
next_worker_from_new(cursor, len) == fetch_add(cursor) % len

next_worker(cursor, len) == cursor % len

InFlight == {t \in Tasks : tpc[t] = "fetched"}

\* No pool has been constructed yet.
CursorInit ==
    /\ pool_size = 0
    /\ current_index = 0
    /\ tpc = [t \in Tasks |-> "idle"]
    /\ fetched = [t \in Tasks |-> 0]
    /\ picks = <<>>
    /\ overlapped = FALSE
    /\ new_pc = "idle"
    /\ new_n = 0
    /\ new_i = 0
    /\ spawned = 0

\* ActorPool::new(n, ..) with every spawn succeeding: n workers, cursor 0.
PoolNew(n) ==
    /\ pool_size = 0
    /\ new_pc = "idle"
    /\ pool_size' = n
    /\ current_index' = 0
    /\ UNCHANGED <<tpc, fetched, picks, overlapped, newVars, workerVars, dispatchVars>>
    /\ UNCHANGED <<store, lockVars, rateVars, regVars, handlerVars, useCaseVars>>

\* ActorPool::new(n, ..) step by step.  The call: an empty vector, i = 0.
NewCall(n) ==
    /\ pool_size = 0
    /\ new_pc = "idle"
    /\ new_pc' = "spawning"
    /\ new_n' = n
    /\ new_i' = 0
    /\ spawned' = 0
    /\ UNCHANGED <<pool_size, current_index, tpc, fetched, picks, overlapped>>
    /\ UNCHANGED <<workerVars, dispatchVars>>
    /\ UNCHANGED <<store, lockVars, rateVars, regVars, handlerVars, useCaseVars>>

\* Actor::spawn(..).await returns the actor, which is pushed.
SpawnOk ==
    /\ new_pc = "spawning"
    /\ new_i < new_n
    /\ new_i' = new_i + 1
    /\ spawned' = spawned + 1
    /\ UNCHANGED <<new_pc, new_n>>
    /\ UNCHANGED <<pool_size, current_index, tpc, fetched, picks, overlapped>>
    /\ UNCHANGED <<workerVars, dispatchVars>>
    /\ UNCHANGED <<store, lockVars, rateVars, regVars, handlerVars, useCaseVars>>

\* Actor::spawn(..).await returns Err: the `?` returns it from new.
SpawnErr_skipped ==
    /\ new_pc = "spawning"
    /\ new_i < new_n
    /\ new_i' = new_i + 1
    /\ UNCHANGED <<new_pc, new_n, spawned>>
    /\ UNCHANGED <<pool_size, current_index, tpc, fetched, picks, overlapped>>
    /\ UNCHANGED <<workerVars, dispatchVars>>
    /\ UNCHANGED <<store, lockVars, rateVars, regVars, handlerVars, useCaseVars>>

SpawnErr ==
    /\ new_pc = "spawning"
    /\ new_i < new_n
    /\ new_i' = new_i + 1
    /\ new_pc' = "err"
    /\ UNCHANGED <<new_n, spawned>>
    /\ UNCHANGED <<pool_size, current_index, tpc, fetched, picks, overlapped>>
    /\ UNCHANGED <<workerVars, dispatchVars>>
    /\ UNCHANGED <<store, lockVars, rateVars, regVars, handlerVars, useCaseVars>>

\* The loop is over: Ok(Self { workers, current_index: AtomicUsize::new(0) }).
NewReturn ==
    /\ new_pc = "spawning"
    /\ new_i = new_n
    /\ new_pc' = "ok"
    /\ pool_size' = spawned
    /\ current_index' = 0
    /\ UNCHANGED <<new_n, new_i, spawned>>
    /\ UNCHANGED <<tpc, fetched, picks, overlapped>>
    /\ UNCHANGED <<workerVars, dispatchVars>>
    /\ UNCHANGED <<store, lockVars, rateVars, regVars, handlerVars, useCaseVars>>

\* A task calls next_worker: the fetch_add is one atomic step.
NextWorkerFetch(t) ==
    /\ pool_size > 0
    /\ tpc[t] = "idle"
    /\ Len(picks) + Cardinality(InFlight) < MaxCalls
    /\ fetched' = [fetched EXCEPT ![t] = current_index]
    /\ current_index' = fetch_add(current_index)
    /\ tpc' = [tpc EXCEPT ![t] = "fetched"]
    /\ overlapped' = (overlapped \/ InFlight # {})
    /\ UNCHANGED <<pool_size, picks, newVars, workerVars, dispatchVars>>
    /\ UNCHANGED <<store, lockVars, rateVars, regVars, handlerVars, useCaseVars>>

\* The call returns workers[index].
NextWorkerReturn(t) ==
    /\ tpc[t] = "fetched"
    /\ picks' = Append(picks, next_worker(fetched[t], pool_size))
    /\ tpc' = [tpc EXCEPT ![t] = "idle"]
    /\ fetched' = [fetched EXCEPT ![t] = 0]
    /\ UNCHANGED <<pool_size, current_index, overlapped, newVars, workerVars, dispatchVars>>
    /\ UNCHANGED <<store, lockVars, rateVars, regVars, handlerVars, useCaseVars>>

(***************************************************************************)
(* UserServiceActor workers and the dispatch facade                        *)
(***************************************************************************)
\* The messages of UserServiceMessage.  The facade sends GetUser and
\* CreateUser; HealthCheck is sent by a holder of a worker's ActorRef.
Kinds == {"GetUser", "CreateUser", "HealthCheck"}

\* What the handler sends for a message: the GetUser and CreateUser arms
\* send the Result of their operation, Ok(UserResponse) or Err(Status)
\* ("Status" stands for any of the statuses handle_get_user and
\* handle_create_user produce); the HealthCheck arm sends true.
HandlerResults(kind) ==
    IF kind = "HealthCheck" THEN {"true"} ELSE {"Ok", "Status"}

ReplyValues == {"Ok", "Status", "true"}

\* Each worker is an actor spawned as a task of its own: it runs whenever
\* it has something to do, whatever the other workers are doing.
Scheduled_one_at_a_time(w) ==
    w < pool_size /\ \A v \in WorkerIds \ {w} : handling[v] = 0

Scheduled(w) == w < pool_size

WorkerInit ==
    /\ mailbox = [w \in WorkerIds |-> <<>>]
    /\ handling = [w \in WorkerIds |-> 0]
    /\ opTime = [w \in WorkerIds |-> 0]
    /\ slow = [w \in WorkerIds |-> FALSE]
    /\ request_count = [w \in WorkerIds |-> 0]
    /\ status = [w \in WorkerIds |-> "running"]
    /\ stop_requested = [w \in WorkerIds |-> FALSE]
    /\ atShutdown = [queued |-> {}, inflight |-> {}]
    /\ aborted = {}

DispatchInit ==
    /\ rq_pc = [r \in Reqs |-> "new"]
    /\ rq_kind = [r \in Reqs |-> "none"]
    /\ target = [r \in Reqs |-> 0]
    /\ slot = [r \in Reqs |-> "none"]
    /\ waited = [r \in Reqs |-> 0]
    /\ outcome = [r \in Reqs |-> "none"]
    /\ ahead = [r \in Reqs |-> 0]
    /\ late = [r \in Reqs |-> FALSE]
    /\ sends = [r \in Reqs |-> 0]
    /\ written = [r \in Reqs |-> 0]
    /\ handled = [r \in Reqs |-> FALSE]

\* What the facade returns for each way a dispatch can fail
\* (user_service.rs:60-63, 68-71, 72-75; the same in create_user).
enqueue_failed == "Internal"

deadline_elapsed == "DeadlineExceeded"

reply_dropped == "Internal"

\* get_user / create_user up to the wait (user_service.rs:52-63, 90-102):
\* next_worker(), oneshot() and send_message, which appends the message with
\* the sending half of the slot to the worker's queue.  (A health probe
\* obtains its worker's ActorRef and sends its message in the same way.)
\* send_message fails when the worker's actor has stopped: the call then
\* returns Status::internal at once (user_service.rs:60-63, 99-102).
Call(r, kind) ==
    /\ pool_size > 0
    /\ rq_pc[r] = "new"
    /\ \A q \in Reqs : q < r => rq_pc[q] # "new"
    /\ LET w == next_worker(current_index, pool_size)
       IN  /\ target' = [target EXCEPT ![r] = w]
           /\ IF status[w] = "running"
              THEN /\ mailbox' = [mailbox EXCEPT ![w] = Append(@, r)]
                   /\ ahead' = [ahead EXCEPT ![r] =
                                  Len(mailbox[w]) + (IF handling[w] = 0 THEN 0 ELSE 1)]
                   /\ late' = [late EXCEPT ![r] = slow[w]]
                   /\ slot' = [slot EXCEPT ![r] = "empty"]
                   /\ rq_pc' = [rq_pc EXCEPT ![r] = "waiting"]
                   /\ UNCHANGED outcome
              ELSE /\ slot' = [slot EXCEPT ![r] = "unsent"]
                   /\ outcome' = [outcome EXCEPT ![r] = enqueue_failed]
                   /\ rq_pc' = [rq_pc EXCEPT ![r] = "done"]
                   /\ UNCHANGED <<mailbox, ahead, late>>
    /\ current_index' = fetch_add(current_index)
    /\ rq_kind' = [rq_kind EXCEPT ![r] = kind]
    /\ UNCHANGED <<pool_size, tpc, fetched, picks, overlapped, newVars>>
    /\ UNCHANGED <<handling, opTime, slow, request_count, lifeVars>>
    /\ UNCHANGED <<waited, sends, written, handled>>
    /\ UNCHANGED <<store, lockVars, rateVars, regVars, handlerVars, useCaseVars>>

\* reply.send(value): the value goes into the slot if the caller still holds
\* the receiving half; otherwise send returns Err, which the handler logs.
ReplySend_failures_unsent(r, value) ==
    /\ slot' = [slot EXCEPT ![r] =
                  IF @ = "empty" /\ value \in {"Ok", "true"} THEN value ELSE @]
    /\ written' = [written EXCEPT ![r] =
                     IF slot[r] = "empty" /\ value \in {"Ok", "true"} THEN @ + 1 ELSE @]
    /\ sends' = [sends EXCEPT ![r] = IF value \in {"Ok", "true"} THEN @ + 1 ELSE @]

ReplySend(r, value) ==
    /\ slot' = [slot EXCEPT ![r] = IF @ = "empty" THEN value ELSE @]
    /\ written' = [written EXCEPT ![r] = IF slot[r] = "empty" THEN @ + 1 ELSE @]
    /\ sends' = [sends EXCEPT ![r] = @ + 1]

\* The worker takes the oldest message of its queue and enters handle().
\* GetUser and CreateUser count the request and start their operation; the
\* HealthCheck arm replies at once and handle() returns.
WorkerReceive_newest_first(w) ==
    /\ Scheduled(w)
    /\ status[w] = "running"
    /\ ~stop_requested[w]
    /\ handling[w] = 0
    /\ mailbox[w] # <<>>
    /\ LET r == mailbox[w][Len(mailbox[w])]
       IN  IF rq_kind[r] = "HealthCheck"
           THEN /\ ReplySend(r, "true")
                /\ handled' = [handled EXCEPT ![r] = TRUE]
                /\ UNCHANGED <<handling, request_count>>
           ELSE /\ request_count' = [request_count EXCEPT ![w] = @ + 1]
                /\ handling' = [handling EXCEPT ![w] = r]
                /\ UNCHANGED <<slot, written, sends, handled>>
    /\ mailbox' = [mailbox EXCEPT ![w] = SubSeq(@, 1, Len(@) - 1)]
    /\ UNCHANGED <<cursorVars, opTime, slow, lifeVars>>
    /\ UNCHANGED <<rq_pc, rq_kind, target, waited, outcome, ahead, late>>
    /\ UNCHANGED <<store, lockVars, rateVars, regVars, handlerVars, useCaseVars>>

\* A handler that counts every message, the HealthCheck too.
WorkerReceive_counts_all(w) ==
    /\ Scheduled(w)
    /\ status[w] = "running"
    /\ ~stop_requested[w]
    /\ handling[w] = 0
    /\ mailbox[w] # <<>>
    /\ LET r == Head(mailbox[w])
       IN  IF rq_kind[r] = "HealthCheck"
           THEN /\ ReplySend(r, "true")
                /\ handled' = [handled EXCEPT ![r] = TRUE]
                /\ request_count' = [request_count EXCEPT ![w] = @ + 1]
                /\ UNCHANGED handling
           ELSE /\ request_count' = [request_count EXCEPT ![w] = @ + 1]
                /\ handling' = [handling EXCEPT ![w] = r]
                /\ UNCHANGED <<slot, written, sends, handled>>
    /\ mailbox' = [mailbox EXCEPT ![w] = Tail(@)]
    /\ UNCHANGED <<cursorVars, opTime, slow, lifeVars>>
    /\ UNCHANGED <<rq_pc, rq_kind, target, waited, outcome, ahead, late>>
    /\ UNCHANGED <<store, lockVars, rateVars, regVars, handlerVars, useCaseVars>>

WorkerReceive(w) ==
    /\ Scheduled(w)
    /\ status[w] = "running"
    /\ ~stop_requested[w]
    /\ handling[w] = 0
    /\ mailbox[w] # <<>>
    /\ LET r == Head(mailbox[w])
       IN  IF rq_kind[r] = "HealthCheck"
           THEN /\ ReplySend(r, "true")
                /\ handled' = [handled EXCEPT ![r] = TRUE]
                /\ UNCHANGED <<handling, request_count>>
           ELSE /\ request_count' = [request_count EXCEPT ![w] = @ + 1]
                /\ handling' = [handling EXCEPT ![w] = r]
                /\ UNCHANGED <<slot, written, sends, handled>>
    /\ mailbox' = [mailbox EXCEPT ![w] = Tail(@)]
    /\ UNCHANGED <<cursorVars, opTime, slow, lifeVars>>
    /\ UNCHANGED <<rq_pc, rq_kind, target, waited, outcome, ahead, late>>
    /\ UNCHANGED <<store, lockVars, rateVars, regVars, handlerVars, useCaseVars>>

\* The operation returns its result, the handler sends it and returns Ok(()).
WorkerFinish(w, value) ==
    /\ Scheduled(w)
    /\ handling[w] # 0
    /\ value \in HandlerResults(rq_kind[handling[w]])
    /\ ReplySend(handling[w], value)
    /\ handled' = [handled EXCEPT ![handling[w]] = TRUE]
    /\ handling' = [handling EXCEPT ![w] = 0]
    /\ opTime' = [opTime EXCEPT ![w] = 0]
    /\ slow' = [slow EXCEPT ![w] = FALSE]
    /\ UNCHANGED <<cursorVars, mailbox, request_count, lifeVars>>
    /\ UNCHANGED <<rq_pc, rq_kind, target, waited, outcome, ahead, late>>
    /\ UNCHANGED <<store, lockVars, rateVars, regVars, handlerVars, useCaseVars>>

Queued(w) == {mailbox[w][i] : i \in DOMAIN mailbox[w]}

\* The operation in the handler does not return in time (the backing store
\* does not answer); it may return later, or never.
SlowDown(w) ==
    /\ Scheduled(w)
    /\ handling[w] # 0
    /\ ~slow[w]
    /\ slow' = [slow EXCEPT ![w] = TRUE]
    /\ opTime' = [opTime EXCEPT ![w] = 0]
    /\ late' = [r \in Reqs |-> late[r] \/ r = handling[w] \/ r \in Queued(w)]
    /\ UNCHANGED <<cursorVars, mailbox, handling, request_count, lifeVars>>
    /\ UNCHANGED <<rq_pc, rq_kind, target, slot, waited, outcome, ahead,
                   sends, written, handled>>
    /\ UNCHANGED <<store, lockVars, rateVars, regVars, handlerVars, useCaseVars>>

\* The call returns: its timer and what was noted about its wait are gone.
Returned(r) ==
    /\ waited' = [waited EXCEPT ![r] = 0]
    /\ ahead' = [ahead EXCEPT ![r] = 0]
    /\ late' = [late EXCEPT ![r] = FALSE]

\* rx.await yields the value the worker sent.
ReceiveReply(r) ==
    /\ rq_pc[r] = "waiting"
    /\ slot[r] \in ReplyValues
    /\ outcome' = [outcome EXCEPT ![r] = slot[r]]
    /\ slot' = [slot EXCEPT ![r] = "taken"]
    /\ rq_pc' = [rq_pc EXCEPT ![r] = "done"]
    /\ Returned(r)
    /\ UNCHANGED <<cursorVars, workerVars>>
    /\ UNCHANGED <<rq_kind, target, sends, written, handled>>
    /\ UNCHANGED <<store, lockVars, rateVars, regVars, handlerVars, useCaseVars>>

\* The caller's future is dropped and with it the receiving half of the
\* slot.  Nothing is sent to the worker.
DropReceiver_cancels(r) ==
    /\ slot' = [slot EXCEPT ![r] = "rx_dropped"]
    /\ handling' = [w \in WorkerIds |-> IF handling[w] = r THEN 0 ELSE handling[w]]
    /\ mailbox' = [w \in WorkerIds |-> SelectSeq(mailbox[w], LAMBDA q : q # r)]
    /\ UNCHANGED <<opTime, slow, request_count, lifeVars>>

DropReceiver(r) ==
    /\ slot' = [slot EXCEPT ![r] = "rx_dropped"]
    /\ UNCHANGED <<mailbox, handling, opTime, slow, request_count, lifeVars>>

\* timeout(5 s, rx): the deadline passes with the slot still empty.
Timeout(r) ==
    /\ rq_pc[r] = "waiting"
    /\ slot[r] = "empty"
    /\ waited[r] >= Deadline
    /\ outcome' = [outcome EXCEPT ![r] = deadline_elapsed]
    /\ DropReceiver(r)
    /\ rq_pc' = [rq_pc EXCEPT ![r] = "done"]
    /\ Returned(r)
    /\ UNCHANGED cursorVars
    /\ UNCHANGED <<rq_kind, target, sends, written, handled>>
    /\ UNCHANGED <<store, lockVars, rateVars, regVars, handlerVars, useCaseVars>>
(***************************************************************************)
(* Worker lifecycle: stop and failure                                      *)
(***************************************************************************)
\* A message that is dropped unanswered takes the sending half of its reply
\* slot with it (user_messages.rs:8-23: the reply port is a field of the
\* message); a slot whose receiver is still waiting becomes "tx_dropped".
DropUnanswered(rs) ==
    [r \in Reqs |-> IF r \in rs /\ slot[r] = "empty" THEN "tx_dropped" ELSE slot[r]]

\* ActorPool::shutdown: stop(None) on every worker, in one pass.
Shutdown ==
    /\ pool_size > 0
    /\ \E w \in WorkerIds : w < pool_size /\ ~stop_requested[w]
    /\ stop_requested' = [w \in WorkerIds |-> stop_requested[w] \/ w < pool_size]
    /\ atShutdown' =
         [queued |-> UNION {Queued(w) : w \in {v \in WorkerIds : status[v] = "running"}},
          inflight |-> {handling[w] : w \in WorkerIds} \ {0}]
    /\ UNCHANGED <<status, aborted>>
    /\ UNCHANGED <<cursorVars, mailbox, handling, opTime, slow, request_count>>
    /\ UNCHANGED dispatchVars
    /\ UNCHANGED <<store, lockVars, rateVars, regVars, handlerVars, useCaseVars>>

\* The worker's actor acts on the stop request, which it takes before any
\* queued message and after the handler in progress: it runs post_stop
\* (user_actor.rs:81-92) and ends, and what is left in its queue is dropped.
WorkerStop(w) ==
    /\ Scheduled(w)
    /\ status[w] = "running"
    /\ stop_requested[w]
    /\ handling[w] = 0
    /\ status' = [status EXCEPT ![w] = "stopped"]
    /\ slot' = DropUnanswered(Queued(w))
    /\ mailbox' = [mailbox EXCEPT ![w] = <<>>]
    /\ UNCHANGED <<stop_requested, atShutdown, aborted>>
    /\ UNCHANGED <<cursorVars, handling, opTime, slow, request_count>>
    /\ UNCHANGED <<rq_pc, rq_kind, target, waited, outcome, ahead, late,
                   sends, written, handled>>
    /\ UNCHANGED <<store, lockVars, rateVars, regVars, handlerVars, useCaseVars>>

\* The worker's actor ends abnormally inside handle() (a panic in the
\* handler, or the actor is killed): the handler never reaches reply.send,
\* the message in the handler and the queued ones are dropped, and nothing
\* restarts the worker (actor_pool.rs:24-30 spawns without a supervisor).
WorkerPanic_keeps_slot(w) ==
    /\ Scheduled(w)
    /\ status[w] = "running"
    /\ handling[w] # 0
    /\ status' = [status EXCEPT ![w] = "failed"]
    /\ aborted' = aborted \cup {handling[w]}
    /\ slot' = slot
    /\ mailbox' = [mailbox EXCEPT ![w] = <<>>]
    /\ handling' = [handling EXCEPT ![w] = 0]
    /\ opTime' = [opTime EXCEPT ![w] = 0]
    /\ slow' = [slow EXCEPT ![w] = FALSE]
    /\ UNCHANGED <<stop_requested, atShutdown>>
    /\ UNCHANGED <<cursorVars, request_count>>
    /\ UNCHANGED <<rq_pc, rq_kind, target, waited, outcome, ahead, late,
                   sends, written, handled>>
    /\ UNCHANGED <<store, lockVars, rateVars, regVars, handlerVars, useCaseVars>>

\* A supervisor that puts a fresh unit in the place of the failed one.
WorkerPanic_respawned(w) ==
    /\ Scheduled(w)
    /\ status[w] = "running"
    /\ handling[w] # 0
    /\ status' = status
    /\ aborted' = aborted \cup {handling[w]}
    /\ slot' = DropUnanswered(Queued(w) \cup {handling[w]})
    /\ mailbox' = [mailbox EXCEPT ![w] = <<>>]
    /\ handling' = [handling EXCEPT ![w] = 0]
    /\ opTime' = [opTime EXCEPT ![w] = 0]
    /\ slow' = [slow EXCEPT ![w] = FALSE]
    /\ UNCHANGED <<stop_requested, atShutdown>>
    /\ UNCHANGED <<cursorVars, request_count>>
    /\ UNCHANGED <<rq_pc, rq_kind, target, waited, outcome, ahead, late,
                   sends, written, handled>>
    /\ UNCHANGED <<store, lockVars, rateVars, regVars, handlerVars, useCaseVars>>

WorkerPanic(w) ==
    /\ Scheduled(w)
    /\ status[w] = "running"
    /\ handling[w] # 0
    /\ status' = [status EXCEPT ![w] = "failed"]
    /\ aborted' = aborted \cup {handling[w]}
    /\ slot' = DropUnanswered(Queued(w) \cup {handling[w]})
    /\ mailbox' = [mailbox EXCEPT ![w] = <<>>]
    /\ handling' = [handling EXCEPT ![w] = 0]
    /\ opTime' = [opTime EXCEPT ![w] = 0]
    /\ slow' = [slow EXCEPT ![w] = FALSE]
    /\ UNCHANGED <<stop_requested, atShutdown>>
    /\ UNCHANGED <<cursorVars, request_count>>
    /\ UNCHANGED <<rq_pc, rq_kind, target, waited, outcome, ahead, late,
                   sends, written, handled>>
    /\ UNCHANGED <<store, lockVars, rateVars, regVars, handlerVars, useCaseVars>>

\* timeout(5 s, rx) yields Ok(Err(_)): the sending half was dropped without
\* a value (user_service.rs:72-75, 108-111).
ReplyDropped(r) ==
    /\ rq_pc[r] = "waiting"
    /\ slot[r] = "tx_dropped"
    /\ outcome' = [outcome EXCEPT ![r] = reply_dropped]
    /\ rq_pc' = [rq_pc EXCEPT ![r] = "done"]
    /\ Returned(r)
    /\ UNCHANGED <<cursorVars, workerVars>>
    /\ UNCHANGED <<rq_kind, target, slot, sends, written, handled>>
    /\ UNCHANGED <<store, lockVars, rateVars, regVars, handlerVars, useCaseVars>>

\* A worker that is scheduled and not running slow takes a queued message
\* without delay and returns from an operation within MaxOp ticks.
MustAct(w) ==
    /\ Scheduled(w)
    /\ ~slow[w]
    /\ \/ handling[w] = 0 /\ mailbox[w] # <<>> /\ status[w] = "running"
          /\ ~stop_requested[w]
       \/ handling[w] # 0 /\ opTime[w] >= MaxOp

\* A caller's timer fires when its deadline is reached.
TimerDue_unarmed(r) == FALSE

TimerDue(r) == rq_pc[r] = "waiting" /\ slot[r] = "empty" /\ waited[r] >= Deadline

\* A caller waiting on a slot whose sending half is gone is woken at once.
ReceiverWoken(r) == rq_pc[r] = "waiting" /\ slot[r] = "tx_dropped"

(***************************************************************************)
(* RegisterUseCase::execute                                                *)
(***************************************************************************)
\* Concurrent executions for one email; each has a lock value of its own
\* (a fresh uuid, register.rs:69), here the execution's name.
RegProcs == {"x1", "x2", "x3"}

\* format!("lock:register:{}", email) for that email (register.rs:68).
RegisterKey == "lock:register:e1"

\* lock_ttl, 10 s (register.rs:70), in ticks.
RegisterLockTtl == 2

\* The email the executions register.
RegisterEmail == "e1"

\* The users table refuses a record whose email another record has and
\* reports a duplicate key; otherwise the record is inserted.  (Ids are
\* fresh uuids and never collide.)
insert_user(us, rec) ==
    IF \E u \in us : u.email = rec.email
    THEN [users |-> us, result |-> "duplicate key"]
    ELSE [users |-> us \cup {rec}, result |-> "inserted"]

\* AuthRepository::create_user: the insert, with a duplicate key reported as
\* EmailAlreadyExists and any other failure as DatabaseError.
create_user(us, id, email, db_up) ==
    IF ~db_up
    THEN [users |-> us, result |-> "DatabaseError"]
    ELSE LET ins == insert_user(us, [id |-> id, email |-> email])
         IN  [users |-> ins.users,
              result |-> IF ins.result = "inserted" THEN "Ok"
                         ELSE "EmailAlreadyExists"]

\* AuthRepository::find_by_email: Some(user) when a record has the email.
find_by_email(us, email, db_up) ==
    IF ~db_up THEN "DatabaseError"
    ELSE IF \E u \in us : u.email = email THEN "Some" ELSE "None"

\* The ids of the records with the email.
Registered(email) == {u.id : u \in {v \in users : v.email = email}}

RegisterInit ==
    /\ reg_pc = [p \in RegProcs |-> "start"]
    /\ reg_ret = [p \in RegProcs |-> "none"]
    /\ users = {}
    /\ reg_acquired = [p \in RegProcs |-> FALSE]
    /\ reg_released = [p \in RegProcs |-> FALSE]
    /\ reg_raced = [p \in RegProcs |-> FALSE]
    /\ reg_lapsed = FALSE

\* execute returns result.
RegReturn(p, result) ==
    /\ reg_ret' = [reg_ret EXCEPT ![p] = result]
    /\ reg_pc' = [reg_pc EXCEPT ![p] = "done"]

\* lock.release(): the record is deleted if it still holds this execution's
\* value; with the cache down nothing is deleted.  The result is not used
\* (let _ =, or logged).
RegRelease(p, cache_up) ==
    /\ store' = IF cache_up THEN delete_if_equals(store, RegisterKey, p).store
                ELSE store
    /\ reg_released' = [reg_released EXCEPT ![p] = TRUE]

\* lock.acquire() (register.rs:75-77): an error of the cache is returned as
\* LockError, a refusal as ConcurrentRegistration.
RegAcquire_ignores_refusal(p, cache_up) ==
    /\ reg_pc[p] = "start"
    /\ IF ~cache_up
       THEN /\ RegReturn(p, "LockError")
            /\ UNCHANGED <<store, reg_acquired>>
       ELSE LET res == set_nx(store, RegisterKey, p, RegisterLockTtl)
            IN  /\ store' = res.store
                /\ IF TRUE
                   THEN /\ reg_acquired' = [reg_acquired EXCEPT ![p] = TRUE]
                        /\ reg_pc' = [reg_pc EXCEPT ![p] = "locked"]
                        /\ UNCHANGED reg_ret
                   ELSE /\ RegReturn(p, "ConcurrentRegistration")
                        /\ UNCHANGED reg_acquired
    /\ UNCHANGED <<users, reg_released, reg_raced, reg_lapsed>>
    /\ UNCHANGED <<lockVars, rateVars, poolVars, handlerVars, useCaseVars>>

RegAcquire(p, cache_up) ==
    /\ reg_pc[p] = "start"
    /\ IF ~cache_up
       THEN /\ RegReturn(p, "LockError")
            /\ UNCHANGED <<store, reg_acquired>>
       ELSE LET res == set_nx(store, RegisterKey, p, RegisterLockTtl)
            IN  /\ store' = res.store
                /\ IF res.reply
                   THEN /\ reg_acquired' = [reg_acquired EXCEPT ![p] = TRUE]
                        /\ reg_pc' = [reg_pc EXCEPT ![p] = "locked"]
                        /\ UNCHANGED reg_ret
                   ELSE /\ RegReturn(p, "ConcurrentRegistration")
                        /\ UNCHANGED reg_acquired
    /\ UNCHANGED <<users, reg_released, reg_raced, reg_lapsed>>
    /\ UNCHANGED <<lockVars, rateVars, poolVars, handlerVars, useCaseVars>>

\* The lookup (register.rs:83-93): a repository error leaves through `?`;
\* a found record releases the lock and returns EmailAlreadyExists.
RegLookup(p, db_up, cache_up) ==
    /\ reg_pc[p] = "locked"
    /\ LET found == find_by_email(users, RegisterEmail, db_up)
       IN  CASE found = "DatabaseError" ->
                    /\ RegReturn(p, "RepositoryError")
                    /\ UNCHANGED <<store, reg_released>>
             [] found = "Some" ->
                    /\ RegRelease(p, cache_up)
                    /\ RegReturn(p, "EmailAlreadyExists")
             [] found = "None" ->
                    /\ reg_pc' = [reg_pc EXCEPT ![p] = "looked_up"]
                    /\ UNCHANGED <<store, reg_released, reg_ret>>
    /\ UNCHANGED <<users, reg_acquired, reg_raced, reg_lapsed>>
    /\ UNCHANGED <<lockVars, rateVars, poolVars, handlerVars, useCaseVars>>

\* create_user and the match on its result (register.rs:105-125).
RegCreate(p, db_up, cache_up) ==
    /\ reg_pc[p] = "looked_up"
    /\ LET res == create_user(users, p, RegisterEmail, db_up)
       IN  /\ users' = res.users
           /\ reg_raced' = [reg_raced EXCEPT ![p] = res.result = "EmailAlreadyExists"]
           /\ IF res.result = "Ok"
              THEN /\ reg_pc' = [reg_pc EXCEPT ![p] = "created"]
                   /\ UNCHANGED <<store, reg_released, reg_ret>>
              ELSE /\ RegRelease(p, cache_up)
                   /\ RegReturn(p, IF res.result = "EmailAlreadyExists"
                                   THEN "EmailAlreadyExists" ELSE "RepositoryError")
    /\ UNCHANGED <<reg_acquired, reg_lapsed>>
    /\ UNCHANGED <<lockVars, rateVars, poolVars, handlerVars, useCaseVars>>

\* The confirmation mail and the end of execute (register.rs:127-154).
RegSendMail(p, mail_up, cache_up) ==
    /\ reg_pc[p] = "created"
    /\ RegRelease(p, cache_up)
    /\ RegReturn(p, IF mail_up THEN "Ok" ELSE "EmailError")
    /\ UNCHANGED <<users, reg_acquired, reg_raced, reg_lapsed>>
    /\ UNCHANGED <<lockVars, rateVars, poolVars, handlerVars, useCaseVars>>

(***************************************************************************)
(* UserServiceActor: the handlers and the repository under them            *)
(***************************************************************************)
HWorkers == {"a0", "a1"}

HMsgs == {"m1", "m2", "m3"}

\* The user_id of a GetUser: not a uuid, or the uuid of the user that the
\* CreateUser message of that name creates.
UserIds == {"malformed"} \cup HMsgs

\* The email of a CreateUser: not an email address, or a well-formed one.
Emails == {"e1", "e2"}

EmailArgs == {"not an email"} \cup Emails

NoMsg == [kind |-> "none", arg |-> "none", repo |-> "none", reply |-> "none"]

\* validate_uuid: Uuid::parse_str, a parse error as InvalidArgument.
validate_uuid(user_id) == IF user_id = "malformed" THEN "InvalidArgument" ELSE "Ok"

\* UserRepository::find_by_id.
find_by_id(us, id, db_up) ==
    IF ~db_up THEN "Internal"
    ELSE IF \E u \in us : u.id = id THEN "Some" ELSE "None"

\* handle_get_user: the validation, the lookup and the status of each
\* failure.
handle_get_user_unvalidated(us, user_id, db_up) ==
    LET found == find_by_id(us, user_id, db_up)
    IN  [repo |-> found,
         reply |-> CASE found = "Some" -> "Ok"
                     [] found = "None" -> "NotFound"
                     [] OTHER -> "Internal"]

handle_get_user(us, user_id, db_up) ==
    IF validate_uuid(user_id) # "Ok"
    THEN [repo |-> "none", reply |-> validate_uuid(user_id)]
    ELSE LET found == find_by_id(us, user_id, db_up)
         IN  [repo |-> found,
              reply |-> CASE found = "Some" -> "Ok"
                          [] found = "None" -> "NotFound"
                          [] OTHER -> "Internal"]

\* The variants of the domain's RepositoryError.
RepositoryError == {"Database", "NotFound", "DuplicateEmail", "Internal"}

\* UserRepository::save: insert ... on conflict (id) do update; the error of
\* the statement is converted by From<diesel::result::Error>, a unique
\* violation to DuplicateEmail.
save(us, rec, db_up) ==
    IF ~db_up
    THEN [users |-> us, result |-> "Internal"]
    ELSE LET ins == insert_user(us, rec)
         IN  [users |-> ins.users,
              result |-> IF ins.result = "inserted" THEN "Ok" ELSE "DuplicateEmail"]

\* The match on save's error in handle_create_user: its first two arms name
\* AlreadyExists and DatabaseError, the third is the wildcard.
save_error_status(err) ==
    CASE err = "AlreadyExists" -> "AlreadyExists"
      [] err = "DatabaseError" -> "Internal"
      [] OTHER -> "Internal"

\* handle_create_user: Email::parse, the entity with its fresh id, save.
handle_create_user(us, id, email, db_up) ==
    IF email \notin Emails
    THEN [users |-> us, repo |-> "none", reply |-> "InvalidArgument"]
    ELSE LET saved == save(us, [id |-> id, email |-> email], db_up)
         IN  [users |-> saved.users,
              repo |-> saved.result,
              reply |-> IF saved.result = "Ok" THEN "Ok"
                        ELSE save_error_status(saved.result)]

HandlerInit ==
    /\ hmsg = [m \in HMsgs |-> NoMsg]
    /\ hworker = [w \in HWorkers |-> "idle"]
    /\ hlog = [w \in HWorkers |-> <<>>]

\* A user actor takes a message and enters handle().
HReceive(w, m, kind, arg) ==
    /\ hworker[w] = "idle"
    /\ hmsg[m] = NoMsg
    /\ \/ kind = "GetUser" /\ arg \in UserIds
       \/ kind = "CreateUser" /\ arg \in EmailArgs
    /\ hmsg' = [hmsg EXCEPT ![m] = [NoMsg EXCEPT !.kind = kind, !.arg = arg]]
    /\ hworker' = [hworker EXCEPT ![w] = m]
    /\ UNCHANGED <<hlog, users>>
    /\ UNCHANGED <<reg_pc, reg_ret, reg_acquired, reg_released, reg_raced, reg_lapsed>>
    /\ UNCHANGED <<store, lockVars, rateVars, poolVars, useCaseVars>>

\* The handler's operation runs, its result is sent as the reply, and
\* handle() returns Ok(()): the actor is ready for its next message.
HFinish(w, db_up) ==
    /\ hworker[w] # "idle"
    /\ LET m == hworker[w]
           res == IF hmsg[m].kind = "GetUser"
                  THEN [users |-> users] @@ handle_get_user(users, hmsg[m].arg, db_up)
                  ELSE handle_create_user(users, m, hmsg[m].arg, db_up)
       IN  /\ users' = res.users
           /\ hmsg' = [hmsg EXCEPT ![m].repo = res.repo, ![m].reply = res.reply]
           /\ hlog' = [hlog EXCEPT ![w] = Append(@, m)]
    /\ hworker' = [hworker EXCEPT ![w] = "idle"]
    /\ UNCHANGED <<reg_pc, reg_ret, reg_acquired, reg_released, reg_raced, reg_lapsed>>
    /\ UNCHANGED <<store, lockVars, rateVars, poolVars, useCaseVars>>

(***************************************************************************)
(* GetUserUseCase, UpdateUserUseCase and DeleteUserUseCase on one user      *)
(***************************************************************************)
\* cache_key = format!("user:{}", user_id), for the one user followed.
UserCacheKey == "user:u1"

\* Duration::from_secs(600) of the entry GetUserUseCase writes, in ticks.
UserCacheTtl == 600 * TicksPerSecond

\* No row with the user's id.
NoUser == -1

\* serde_json::to_string(&user): the user's fields as a text.  A user is
\* followed by the version of its row.
JsonTexts == <<"{v0}", "{v1}", "{v2}", "{v3}", "{v4}">>

to_string(user) == JsonTexts[user + 1]

\* serde_json::from_str::<User>(text): Ok(user) for the text of a user and
\* Err for any other text.
from_str(text) ==
    IF \E user \in 0 .. (Len(JsonTexts) - 1) : to_string(user) = text
    THEN [ok |-> TRUE,
          user |-> CHOOSE user \in 0 .. (Len(JsonTexts) - 1) : to_string(user) = text]
    ELSE [ok |-> FALSE, user |-> NoUser]

\* SETEX key ttl value: the record is written whether the key exists or not.
set(st, key, value, ttl) == [st EXCEPT ![key] = StringRecord(value, ttl)]

\* DEL key.
delete(st, key) == [st EXCEPT ![key] = NoRecord]

\* What an execution returns.
Returns(tag, user) == [tag |-> tag, user |-> user]

NotReturned == Returns("none", NoUser)

\* No execution on the user is under way.
Quiescent ==
    /\ \A g \in GetProcs : get_pc[g] = "idle"
    /\ \A u \in WriterProcs : wr_pc[u] = "idle"

UseCaseInit ==
    /\ user_row = 0
    /\ get_pc = [g \in GetProcs |-> "idle"]
    /\ get_read = [g \in GetProcs |-> NoUser]
    /\ get_ret = [g \in GetProcs |-> NotReturned]
    /\ get_clean = [g \in GetProcs |-> FALSE]
    /\ wr_pc = [u \in WriterProcs |-> "idle"]
    /\ wr_op = [u \in WriterProcs |-> "none"]
    /\ wr_user = [u \in WriterProcs |-> NoUser]
    /\ wr_ret = [u \in WriterProcs |-> NotReturned]
    /\ wr_completed = FALSE

\* GetUserUseCase::execute is called with the user's id (a valid uuid).
GetCall(g) ==
    /\ get_pc[g] = "idle"
    /\ get_pc' = [get_pc EXCEPT ![g] = "cache"]
    /\ get_ret' = [get_ret EXCEPT ![g] = NotReturned]
    /\ get_read' = [get_read EXCEPT ![g] = NoUser]
    /\ get_clean' = [get_clean EXCEPT ![g] = Quiescent]
    /\ UNCHANGED <<user_row, wr_pc, wr_op, wr_user, wr_ret, wr_completed>>
    /\ UNCHANGED <<store, lockVars, rateVars, poolVars, regVars, handlerVars>>

\* 1. cache_repository.get(&cache_key): a hit that parses is returned; a
\* miss, a text that does not parse and a cache error go on to the database.
GetCheckCache(g, cache_up) ==
    /\ get_pc[g] = "cache"
    /\ LET cached == Get(store, UserCacheKey)
           hit == cache_up /\ cached # "nil" /\ from_str(cached).ok
       IN  IF hit
           THEN /\ get_ret' = [get_ret EXCEPT ![g] = Returns("Ok", from_str(cached).user)]
                /\ get_pc' = [get_pc EXCEPT ![g] = "idle"]
           ELSE /\ get_pc' = [get_pc EXCEPT ![g] = "db"]
                /\ UNCHANGED get_ret
    /\ UNCHANGED <<user_row, get_read, get_clean, wr_pc, wr_op, wr_user, wr_ret, wr_completed>>
    /\ UNCHANGED <<store, lockVars, rateVars, poolVars, regVars, handlerVars>>

\* 2. user_repository.find_by_id(..).await?.ok_or_else(NotFound)?
GetFetch(g, db_up) ==
    /\ get_pc[g] = "db"
    /\ IF db_up /\ user_row # NoUser
       THEN /\ get_read' = [get_read EXCEPT ![g] = user_row]
            /\ get_pc' = [get_pc EXCEPT ![g] = "set"]
            /\ UNCHANGED get_ret
       ELSE /\ get_ret' = [get_ret EXCEPT ![g] =
                             Returns(IF db_up THEN "NotFound" ELSE "Err", NoUser)]
            /\ get_pc' = [get_pc EXCEPT ![g] = "idle"]
            /\ UNCHANGED get_read
    /\ UNCHANGED <<user_row, get_clean, wr_pc, wr_op, wr_user, wr_ret, wr_completed>>
    /\ UNCHANGED <<store, lockVars, rateVars, poolVars, regVars, handlerVars>>

\* 3. cache_repository.set(&cache_key, &json, 600 s), its error logged and
\* ignored; Ok(user).
GetUpdateCache(g, cache_up) ==
    /\ get_pc[g] = "set"
    /\ store' = IF cache_up
                THEN set(store, UserCacheKey, to_string(get_read[g]), UserCacheTtl)
                ELSE store
    /\ get_ret' = [get_ret EXCEPT ![g] = Returns("Ok", get_read[g])]
    /\ get_pc' = [get_pc EXCEPT ![g] = "idle"]
    /\ UNCHANGED <<user_row, get_read, get_clean, wr_pc, wr_op, wr_user, wr_ret, wr_completed>>
    /\ UNCHANGED <<lockVars, rateVars, poolVars, regVars, handlerVars>>

\* UpdateUserUseCase::execute (op = "update", a valid dto with a name) or
\* DeleteUserUseCase::execute (op = "delete") is called with the user's id.
WriteCall(u, op) ==
    /\ wr_pc[u] = "idle"
    /\ user_row < MaxVersion
    /\ wr_pc' = [wr_pc EXCEPT ![u] = "find"]
    /\ wr_op' = [wr_op EXCEPT ![u] = op]
    /\ wr_ret' = [wr_ret EXCEPT ![u] = NotReturned]
    /\ wr_user' = [wr_user EXCEPT ![u] = NoUser]
    /\ get_clean' = [g \in GetProcs |-> FALSE]
    /\ UNCHANGED <<user_row, get_pc, get_read, get_ret, wr_completed>>
    /\ UNCHANGED <<store, lockVars, rateVars, poolVars, regVars, handlerVars>>

\* user_repository.find_by_id(..).await?: NotFound without a row.
WriteFind(u, db_up) ==
    /\ wr_pc[u] = "find"
    /\ IF db_up /\ user_row # NoUser
       THEN /\ wr_user' = [wr_user EXCEPT ![u] = user_row]
            /\ wr_pc' = [wr_pc EXCEPT ![u] = "save"]
            /\ UNCHANGED <<wr_ret, wr_completed>>
       ELSE /\ wr_ret' = [wr_ret EXCEPT ![u] =
                            Returns(IF db_up THEN "NotFound" ELSE "Err", NoUser)]
            /\ wr_pc' = [wr_pc EXCEPT ![u] = "idle"]
            /\ wr_completed' = TRUE
            /\ UNCHANGED wr_user
    /\ UNCHANGED <<user_row, get_pc, get_read, get_ret, get_clean, wr_op>>
    /\ UNCHANGED <<store, lockVars, rateVars, poolVars, regVars, handlerVars>>

\* update: user.update_name(name) and user_repository.save(&user).await?
\* (an upsert of the changed copy); delete: user_repository.delete(id).await?
\* An error of the repository is returned before the cache is touched.
WriteSave(u, db_up) ==
    /\ wr_pc[u] = "save"
    /\ IF db_up
       THEN /\ user_row' = IF wr_op[u] = "update" THEN wr_user[u] + 1 ELSE NoUser
            /\ wr_pc' = [wr_pc EXCEPT ![u] = "invalidate"]
            /\ UNCHANGED <<wr_ret, wr_completed>>
       ELSE /\ wr_ret' = [wr_ret EXCEPT ![u] = Returns("Err", NoUser)]
            /\ wr_pc' = [wr_pc EXCEPT ![u] = "idle"]
            /\ wr_completed' = TRUE
            /\ UNCHANGED user_row
    /\ UNCHANGED <<get_pc, get_read, get_ret, get_clean, wr_op, wr_user>>
    /\ UNCHANGED <<store, lockVars, rateVars, poolVars, regVars, handlerVars>>

\* cache_repository.delete(&cache_key), its error logged and ignored; the
\* update then publishes its event and both return Ok.
WriteInvalidate(u, cache_up) ==
    /\ wr_pc[u] = "invalidate"
    /\ store' = IF cache_up THEN delete(store, UserCacheKey) ELSE store
    /\ wr_ret' = [wr_ret EXCEPT ![u] =
                    Returns("Ok", IF wr_op[u] = "update" THEN wr_user[u] + 1 ELSE NoUser)]
    /\ wr_pc' = [wr_pc EXCEPT ![u] = "idle"]
    /\ wr_completed' = TRUE
    /\ UNCHANGED <<user_row, get_pc, get_read, get_ret, get_clean, wr_op, wr_user>>
    /\ UNCHANGED <<lockVars, rateVars, poolVars, regVars, handlerVars>>

(***************************************************************************)
(* Time                                                                    *)
(***************************************************************************)
\* One tick passes: records age and expire, every grant ages, and the
\* timestamps of the requests in flight fall one tick behind the present.
Tick ==
    /\ \A p \in RateProcs : rpc[p] = "checking" => rnow[p] > -MaxDelay
    /\ \A w \in WorkerIds : ~MustAct(w)
    /\ \A r \in Reqs : ~TimerDue(r)
    /\ \A r \in Reqs : ~ReceiverWoken(r)
    /\ store' = [k \in DOMAIN store |-> Expire(store[k])]
    /\ heldFor' = [o \in Owners |->
                     IF heldFor[o] < 0 THEN -1
                     ELSE IF heldFor[o] + 1 >= LockTtl THEN -1
                     ELSE heldFor[o] + 1]
    /\ lapsed' = [o \in Owners |->
                    lapsed[o] \/ (heldFor[o] >= 0 /\ heldFor[o] + 1 >= LockTtl)]
    /\ rnow' = [p \in RateProcs |-> IF rpc[p] = "checking" THEN rnow[p] - 1 ELSE rnow[p]]
    /\ admitted' = [a \in DOMAIN admitted |-> IF a = 0 THEN 0 ELSE admitted[a - 1]]
    /\ opTime' = [w \in WorkerIds |->
                    IF handling[w] # 0 /\ ~slow[w] THEN opTime[w] + 1 ELSE opTime[w]]
    /\ waited' = [r \in Reqs |->
                    IF rq_pc[r] = "waiting" /\ slot[r] = "empty"
                    THEN waited[r] + 1 ELSE waited[r]]
    /\ reg_lapsed' = (reg_lapsed \/ (store[RegisterKey].kind = "string"
                                      /\ Expire(store[RegisterKey]).kind = "none"))
    /\ UNCHANGED <<reg_pc, reg_ret, users, reg_acquired, reg_released, reg_raced>>
    /\ UNCHANGED <<handlerVars, useCaseVars>>
    /\ UNCHANGED <<lock_key, lpc, last, rpc, rret, rsaw>>
    /\ UNCHANGED <<cursorVars, mailbox, handling, slow, request_count, lifeVars>>
    /\ UNCHANGED <<rq_pc, rq_kind, target, slot, outcome, ahead, late,
                   sends, written, handled>>

LockNext ==
    \/ \E o \in Owners : AcquireCall(o)
    \/ \E o \in Owners : AcquireReturn(o)
    \/ \E o \in Owners : AcquireError(o)
    \/ \E o \in Owners : ReleaseCall(o)
    \/ \E o \in Owners : ReleaseReturn(o)
    \/ \E o \in Owners : ReleaseError(o)
    \/ Tick

RateNext ==
    \/ \E p \in RateProcs : CheckCall(p)
    \/ \E p \in RateProcs, key \in RateKeys : CheckReturn(p, key)
    \/ \E p \in RateProcs : CheckIoError(p)
    \/ Tick

\* Two lock instances and one rate-limited caller on a cache that can fail.
CacheClientNext ==
    \/ \E o \in {"A", "B"} : AcquireCall(o)
    \/ \E o \in {"A", "B"} : AcquireReturn(o)
    \/ \E o \in {"A", "B"} : AcquireError(o)
    \/ \E o \in {"A", "B"} : ReleaseCall(o)
    \/ \E o \in {"A", "B"} : ReleaseReturn(o)
    \/ \E o \in {"A", "B"} : ReleaseError(o)
    \/ \E p \in {"p1"} : CheckCall(p)
    \/ \E p \in {"p1"}, key \in RateKeys : CheckReturn(p, key)
    \/ \E p \in {"p1"} : CheckIoError(p)
    \/ Tick

RoundRobinNext ==
    \/ \E n \in 1 .. MaxPool : PoolNew(n)
    \/ \E t \in Tasks : NextWorkerFetch(t)
    \/ \E t \in Tasks : NextWorkerReturn(t)

\* A pool built spawn by spawn, and the tasks that use it once it exists.
ConstructNext ==
    \/ \E n \in 1 .. MaxPool : NewCall(n)
    \/ SpawnOk
    \/ SpawnErr
    \/ NewReturn
    \/ \E t \in Tasks : NextWorkerFetch(t)
    \/ \E t \in Tasks : NextWorkerReturn(t)

PoolNext ==
    \/ \E n \in PoolSizes : PoolNew(n)
    \/ \E r \in Reqs, kind \in Kinds : Call(r, kind)
    \/ \E w \in WorkerIds : WorkerReceive(w)
    \/ \E w \in WorkerIds, value \in ReplyValues : WorkerFinish(w, value)
    \/ \E w \in WorkerIds : SlowDown(w)
    \/ \E r \in Reqs : ReceiveReply(r)
    \/ \E r \in Reqs : Timeout(r)
    \/ Tick

\* A pool whose workers can fail inside a handler.
FailureNext ==
    \/ PoolNext
    \/ \E w \in WorkerIds : WorkerPanic(w)
    \/ \E r \in Reqs : ReplyDropped(r)

\* A pool that is shut down while dispatches are under way.
ShutdownNext ==
    \/ PoolNext
    \/ Shutdown
    \/ \E w \in WorkerIds : WorkerStop(w)
    \/ \E r \in Reqs : ReplyDropped(r)

RegisterNext ==
    \/ \E p \in RegProcs, cache_up \in BOOLEAN : RegAcquire(p, cache_up)
    \/ \E p \in RegProcs, db_up, cache_up \in BOOLEAN : RegLookup(p, db_up, cache_up)
    \/ \E p \in RegProcs, db_up, cache_up \in BOOLEAN : RegCreate(p, db_up, cache_up)
    \/ \E p \in RegProcs, mail_up, cache_up \in BOOLEAN : RegSendMail(p, mail_up, cache_up)
    \/ Tick

\* Executions of the three use cases on one user, with a cache and a
\* database that can fail at any call.
UseCaseNext ==
    \/ \E g \in GetProcs : GetCall(g)
    \/ \E g \in GetProcs, cache_up \in BOOLEAN : GetCheckCache(g, cache_up)
    \/ \E g \in GetProcs, db_up \in BOOLEAN : GetFetch(g, db_up)
    \/ \E g \in GetProcs, cache_up \in BOOLEAN : GetUpdateCache(g, cache_up)
    \/ \E u \in WriterProcs, op \in {"update", "delete"} : WriteCall(u, op)
    \/ \E u \in WriterProcs, db_up \in BOOLEAN : WriteFind(u, db_up)
    \/ \E u \in WriterProcs, db_up \in BOOLEAN : WriteSave(u, db_up)
    \/ \E u \in WriterProcs, cache_up \in BOOLEAN : WriteInvalidate(u, cache_up)

HandlerNext ==
    \/ \E w \in HWorkers, m \in HMsgs, kind \in {"GetUser", "CreateUser"},
          arg \in UserIds \cup EmailArgs : HReceive(w, m, kind, arg)
    \/ \E w \in HWorkers, db_up \in BOOLEAN : HFinish(w, db_up)

Init ==
    /\ store = [k \in LockKeys \cup RateKeys \cup {RegisterKey, UserCacheKey} |-> NoRecord]
    /\ RegisterInit
    /\ UseCaseInit
    /\ HandlerInit
    /\ LockInit
    /\ RateInit
    /\ CursorInit
    /\ WorkerInit
    /\ DispatchInit

Next ==
    LockNext \/ RateNext \/ RoundRobinNext \/ FailureNext \/ ShutdownNext
        \/ RegisterNext \/ HandlerNext \/ CacheClientNext \/ ConstructNext
        \/ UseCaseNext

Spec == Init /\ [][Next]_vars

LockSpec == Init /\ [][LockNext]_vars

RateSpec == Init /\ [][RateNext]_vars

\* Both lock instances are for one key.
CacheClientInit == Init /\ lock_key = [o \in Owners |-> "k1"]

CacheClientSpec == CacheClientInit /\ [][CacheClientNext]_vars

\* The lock instances play no part in the pool: one arrangement of them.
PoolInit == Init /\ lock_key = [o \in Owners |-> "k1"]

RoundRobinSpec == PoolInit /\ [][RoundRobinNext]_vars

PoolSpec == PoolInit /\ [][PoolNext]_vars

ConstructSpec == PoolInit /\ [][ConstructNext]_vars

UseCaseSpec == PoolInit /\ [][UseCaseNext]_vars

\* A pool of N workers whose cursor is at most MaxCalls calls before its
\* wrap: the pool has served that many calls since it was built.
WrapInit ==
    /\ store = [k \in LockKeys \cup RateKeys \cup {RegisterKey, UserCacheKey} |-> NoRecord]
    /\ RegisterInit
    /\ UseCaseInit
    /\ HandlerInit
    /\ LockInit
    /\ lock_key = [o \in Owners |-> "k1"]
    /\ RateInit
    /\ WorkerInit
    /\ DispatchInit
    /\ pool_size \in 1 .. MaxPool
    /\ current_index \in (UsizeModulus - MaxCalls) .. (UsizeModulus - 1)
    /\ tpc = [t \in Tasks |-> "idle"]
    /\ fetched = [t \in Tasks |-> 0]
    /\ picks = <<>>
    /\ overlapped = FALSE
    /\ new_pc = "ok"
    /\ new_n = pool_size
    /\ new_i = pool_size
    /\ spawned = pool_size

WrapNext ==
    \/ \E t \in Tasks : NextWorkerFetch(t)
    \/ \E t \in Tasks : NextWorkerReturn(t)

WrapSpec == WrapInit /\ [][WrapNext]_vars

FailureSpec == PoolInit /\ [][FailureNext]_vars

ShutdownSpec == PoolInit /\ [][ShutdownNext]_vars

\* The runtime runs every task that is ready: a caller whose slot holds a
\* value, whose slot was dropped or whose timer is due is polled, a worker
\* takes its steps, and time goes on.
DispatchFairness ==
    /\ WF_vars(Tick)
    /\ \A r \in Reqs : WF_vars(ReceiveReply(r) \/ Timeout(r) \/ ReplyDropped(r))
    /\ \A w \in WorkerIds :
          WF_vars(WorkerReceive(w) \/ SlowDown(w)
                     \/ \E value \in ReplyValues : WorkerFinish(w, value))

\* Two dispatches of the facade (get_user, create_user) on a pool whose
\* workers can be stuck or fail.
DeadlineNext ==
    \/ \E n \in PoolSizes : PoolNew(n)
    \/ \E r \in {1, 2}, kind \in {"GetUser", "CreateUser"} : Call(r, kind)
    \/ \E w \in WorkerIds : WorkerReceive(w)
    \/ \E w \in WorkerIds, value \in ReplyValues : WorkerFinish(w, value)
    \/ \E w \in WorkerIds : SlowDown(w)
    \/ \E w \in WorkerIds : WorkerPanic(w)
    \/ \E r \in Reqs : ReceiveReply(r)
    \/ \E r \in Reqs : Timeout(r)
    \/ \E r \in Reqs : ReplyDropped(r)
    \/ Tick

DeadlineSpec == PoolInit /\ [][DeadlineNext]_vars /\ DispatchFairness

RegisterSpec == PoolInit /\ [][RegisterNext]_vars

HandlerSpec == PoolInit /\ [][HandlerNext]_vars

(***************************************************************************)
(* Properties of the DistributedLock                                       *)
(***************************************************************************)
SameKey(o1, o2) == o1 # o2 /\ lock_key[o1] = lock_key[o2]

Acquired(o) == last[o].op = "acquire" /\ last[o].ret = "true"

Denied(o) == last[o].op = "acquire" /\ last[o].ret = "false"

\* C1: no two distinct instances hold the same key at once; an acquire
\* returns true only when nobody held the key at the moment the cache
\* executed it, and returns false only when somebody did (so of the acquires
\* racing for a free key exactly one returns true).
C1_MutualExclusion ==
    /\ \A o1, o2 \in Owners : SameKey(o1, o2) => ~(Holding(o1) /\ Holding(o2))
    /\ \A o \in Owners : Acquired(o) => last[o].saw = "nobody"
    /\ \A o \in Owners : Denied(o) => last[o].saw \in Owners

\* Three instances raced for one key: one was granted, the other two were
\* denied because of that one.
C1_Witness ==
    \E o \in Owners :
        /\ Acquired(o) /\ Holding(o)
        /\ \A p \in Owners \ {o} : SameKey(o, p) /\ Denied(p) /\ last[p].saw = o

\* C2: while an instance holds a key, its record stays in the cache: a
\* release by another instance (one whose own record expired earlier) never
\* removes it, because a release that finds another token removes nothing.
C2_StaleReleaseHarmless ==
    /\ \A o \in Owners : Holding(o) => Get(store, lock_key[o]) = o
    /\ \A o \in Owners :
          (last[o].op = "release" /\ last[o].ret = "unit" /\ last[o].saw # o)
              => last[o].removed = "false"

\* A's grant ran out, B was granted the key, A's release then found B's
\* token and removed nothing, and a third instance was denied because of B.
C2_Witness ==
    \E a, b, c \in Owners :
        /\ SameKey(a, b) /\ SameKey(b, c) /\ SameKey(a, c)
        /\ lapsed[a] /\ last[a].op = "release" /\ last[a].removed = "false"
        /\ last[a].saw = b
        /\ Holding(b) /\ Get(store, lock_key[b]) = b
        /\ Denied(c) /\ last[c].saw = b

\* A release() that returned, seen as a step.
ReleaseReturned(o) ==
    lpc[o] = "releasing" /\ lpc'[o] = "idle" /\ last'[o].ret # "err"

\* An acquire() that returned, seen as a step.
AcquireReturned(o) ==
    lpc[o] = "acquiring" /\ lpc'[o] = "idle" /\ last'[o].ret # "err"

C4_TtlSelfHealing ==
    \A k \in LockKeys :
        store[k].kind = "string" =>
            /\ store[k].value \in Owners
            /\ lock_key[store[k].value] = k
            /\ Holding(store[k].value)
            /\ store[k].pttl = LockTtl - heldFor[store[k].value]

\* A was granted the key and never called release; its ttl ran out and a
\* different instance then acquired the key.
C4_Witness ==
    \E a, b \in Owners :
        /\ SameKey(a, b)
        /\ Acquired(a) /\ lapsed[a] /\ ~Holding(a)
        /\ Acquired(b) /\ Holding(b)

C6_SequentialChecks ==
    \A p \in RateProcs :
        (/\ \A q \in RateProcs \ {p} : rpc[q] = "idle" /\ rret[q] = "none"
         /\ rpc[p] = "idle"
         /\ rret[p] \notin {"none", "err_io"})
        => rret[p] = IF rsaw[p] < Limit THEN "admitted" ELSE "denied"

(***************************************************************************)
(* Properties of the ActorPool and of the dispatch                         *)
(***************************************************************************)
\* C8: starting from a freshly constructed pool of size N >= 1, the k-th
\* sequential call of next_worker (k = 0, 1, 2, ..) returns index k mod N,
\* so any N consecutive calls visit every worker exactly once.
C8_RoundRobinOrder ==
    ~overlapped =>
        /\ \A k \in DOMAIN picks : picks[k] = (k - 1) % pool_size
        /\ \A j \in DOMAIN picks :
              j + pool_size - 1 <= Len(picks) =>
                  {picks[i] : i \in j .. (j + pool_size - 1)} = 0 .. (pool_size - 1)

\* Seven sequential calls on a pool of three.
C8_Witness ==
    pool_size = 3 /\ ~overlapped /\ picks = <<0, 1, 2, 0, 1, 2, 0>>

\* C7 (as claimed): for every message whose handler has returned, exactly
\* one value was written to the message's reply slot.
C7_ExactlyOneValue ==
    \A r \in Reqs : handled[r] => written[r] = 1

\* C7 (amended): for every message whose handler has returned, reply.send
\* was called exactly once, whichever result the operation produced; one
\* value was written to the slot, or none if the caller had dropped the
\* receiving half on its deadline before the send; never two.  Nothing is
\* written before the handler sends.
C7_OneSendAtMostOneValue ==
    \A r \in Reqs :
        /\ handled[r] =>
              /\ sends[r] = 1
              /\ written[r] = IF slot[r] = "rx_dropped" THEN 0 ELSE 1
        /\ ~handled[r] => sends[r] = 0 /\ written[r] = 0

\* A GetUser whose operation failed has had its status delivered, and the
\* handler of another message has returned after its caller gave up.
C7_Witness ==
    \E r, q \in Reqs :
        /\ handled[r] /\ rq_kind[r] = "GetUser" /\ outcome[r] = "Status"
        /\ handled[q] /\ slot[q] = "rx_dropped" /\ sends[q] = 1

\* C9: a dispatch whose worker has not replied returns DeadlineExceeded
\* when its deadline is reached, and a dispatch whose own worker is not
\* running slow waits no longer than the messages before it on that worker
\* and its own operation take, whatever the state of the other workers.
C9_TimeoutIsolation ==
    \A r \in Reqs :
        /\ rq_pc[r] = "done" /\ written[r] = 0 => outcome[r] = "DeadlineExceeded"
        /\ rq_pc[r] = "waiting" => waited[r] <= Deadline
        /\ rq_pc[r] = "waiting" /\ slot[r] = "empty" /\ ~late[r] =>
              waited[r] <= (ahead[r] + 1) * MaxOp

\* A dispatch is at its deadline with no reply from its slow worker, and a
\* dispatch issued after it to another worker has already returned its reply.
C9_Witness ==
    \E r, q \in Reqs :
        /\ r < q /\ target[r] # target[q]
        /\ TimerDue(r) /\ slow[target[r]] /\ handling[target[r]] = r
        /\ rq_pc[q] = "done" /\ outcome[q] = "Ok"

TimedOut(r) == rq_pc[r] = "done" /\ outcome[r] = "DeadlineExceeded"

\* C10: the step in which a dispatch returns DeadlineExceeded leaves the
\* worker, its queue and the operation in its handler as they are; the
\* message stays with the worker until its handler has returned, the
\* handler's one send then writes nothing, and a worker that has returned
\* from a handler can take the next message of its queue.
C10_TimeoutDoesNotCancel ==
    /\ [][\A r \in Reqs :
             (~TimedOut(r) /\ TimedOut(r)') =>
                 UNCHANGED <<mailbox, handling, opTime, slow, request_count>>]_vars
    /\ [](\A r \in Reqs :
             TimedOut(r) =>
                 IF handled[r]
                 THEN sends[r] = 1 /\ written[r] = 0 /\ slot[r] = "rx_dropped"
                 ELSE handling[target[r]] = r \/ r \in Queued(target[r]))
    /\ [](\A w \in WorkerIds :
             Scheduled(w) /\ handling[w] = 0 /\ mailbox[w] # <<>> =>
                 ENABLED WorkerReceive(w))

\* A dispatch timed out, its worker finished the operation and discarded
\* the value, and the next message of the same queue was handled and
\* answered.
C10_Witness ==
    \E r, q \in Reqs :
        /\ r < q /\ target[r] = target[q]
        /\ TimedOut(r) /\ handled[r] /\ sends[r] = 1 /\ written[r] = 0
        /\ handled[q] /\ written[q] = 1

(***************************************************************************)
(* Properties of the dispatch facade's failure results                     *)
(***************************************************************************)
\* The three ways a dispatch can fail, read off the state it ends in.
EnqueueFailed(r) == rq_pc[r] = "done" /\ slot[r] = "unsent"

ReplySlotDropped(r) == rq_pc[r] = "done" /\ slot[r] = "tx_dropped"

\* C11: the facade maps its three failure causes to three pairwise distinct
\* results: a failed enqueue (the unit's queue is closed) gives Unavailable,
\* a deadline that elapsed without a reply gives DeadlineExceeded, and a
\* reply slot dropped without a value gives Internal.
C11_DistinctFailureResults ==
    \A r \in Reqs :
        /\ EnqueueFailed(r) => outcome[r] = "Unavailable"
        /\ TimedOut(r) => outcome[r] = "DeadlineExceeded"
        /\ ReplySlotDropped(r) => outcome[r] = "Internal"
        /\ \A q \in Reqs :
              EnqueueFailed(r) /\ ReplySlotDropped(q) => outcome[r] # outcome[q]

\* C12 as stated: when a worker ends abnormally inside the handler of a
\* message, nothing is written to that message's reply slot and the dispatch
\* waiting on it ends with DeadlineExceeded.
C12_AbortedCallTimesOut ==
    \A r \in aborted :
        /\ written[r] = 0
        /\ rq_pc[r] = "done" => outcome[r] = "DeadlineExceeded"

\* C12: when a worker ends abnormally inside the handler of a message,
\* nothing is written to that message's reply slot, and a dispatch still
\* waiting on it ends with Internal (its reply slot was dropped), without the
\* deadline having to elapse; DeadlineExceeded is the result only of a dispatch
\* that had given up before the worker ended.
C12_AbortedCallEndsInternal ==
    /\ [](\A r \in aborted :
             /\ written[r] = 0
             /\ slot[r] \in {"tx_dropped", "rx_dropped"}
             /\ rq_pc[r] = "done" =>
                   \/ slot[r] = "tx_dropped" /\ outcome[r] = "Internal"
                   \/ slot[r] = "rx_dropped" /\ outcome[r] = "DeadlineExceeded")
    /\ [][\A r \in Reqs :
             r \in aborted /\ rq_pc[r] = "waiting" /\ rq_pc'[r] = "done"
                 => outcome'[r] = "Internal"]_vars

C12_Witness ==
    \E r \in aborted :
        /\ rq_pc[r] = "done"
        /\ slot[r] = "tx_dropped"
        /\ written[r] = 0
        /\ outcome[r] = "Internal"

(***************************************************************************)
(* Properties of pool shutdown                                             *)
(***************************************************************************)
\* C13: after shutdown() every worker still processes the messages that were
\* in its queue at that moment, each receiving its reply, and only then
\* stops; work in a handler when shutdown() is called is not cancelled.
C13_ShutdownDrainsQueues ==
    \A w \in WorkerIds :
        status[w] = "stopped" =>
            \A r \in atShutdown.queued \cup atShutdown.inflight :
                target[r] = w => handled[r] /\ sends[r] = 1

(***************************************************************************)
(* Properties of RegisterUseCase::execute                                  *)
(***************************************************************************)
Succeeded(p) == reg_pc[p] = "done" /\ reg_ret[p] = "Ok"

\* What execute returns when the cache, the repository or the mail service
\* fails under it.
InfrastructureFailures == {"LockError", "RepositoryError", "EmailError"}

C19_ReleasedBeforeReturn ==
    \A p \in RegProcs :
        reg_pc[p] = "done" /\ reg_acquired[p] => reg_released[p]

(***************************************************************************)
(* Properties of the user actor's handlers                                 *)
(***************************************************************************)
Replied(m) == hmsg[m].reply # "none"

\* C15: a CreateUser for an email that a record of the store already has is
\* answered AlreadyExists and creates no second record; of two CreateUser
\* messages with one email handled by different workers, in any interleaving,
\* at most one is answered with success and the other with AlreadyExists.
C15_DuplicateEmailAlreadyExists ==
    /\ \A m \in HMsgs :
          hmsg[m].kind = "CreateUser" /\ hmsg[m].repo = "DuplicateEmail"
              => hmsg[m].reply = "AlreadyExists"
    /\ \A email \in Emails :
          /\ Cardinality({u \in users : u.email = email}) <= 1
          /\ Cardinality({m \in HMsgs : /\ hmsg[m].kind = "CreateUser"
                                        /\ hmsg[m].arg = email
                                        /\ hmsg[m].reply = "Ok"}) <= 1

\* C16: a GetUser with a malformed id is answered InvalidArgument (before
\* the store is asked), and a GetUser for an id no record has is answered
\* NotFound; the step that ends such a handler writes the failure as the
\* message's reply and leaves the worker ready for the messages that follow.
C16_BusinessFailuresAnswered ==
    /\ [](\A m \in HMsgs :
             hmsg[m].kind = "GetUser" /\ Replied(m) =>
                 /\ hmsg[m].arg = "malformed" =>
                        hmsg[m].reply = "InvalidArgument" /\ hmsg[m].repo = "none"
                 /\ hmsg[m].arg # "malformed" /\ hmsg[m].repo = "None" =>
                        hmsg[m].reply = "NotFound"
                 /\ hmsg[m].reply = "Ok" => \E u \in users : u.id = hmsg[m].arg)
    /\ [][\A w \in HWorkers :
             hworker[w] # "idle" /\ hworker'[w] # hworker[w] =>
                 /\ hworker'[w] = "idle"
                 /\ hmsg'[hworker[w]].reply # "none"
                 /\ hlog'[w] = Append(hlog[w], hworker[w])]_vars

\* One worker answered InvalidArgument, then NotFound, then handled a third
\* message with success.
C16_Witness ==
    \E w \in HWorkers :
        /\ Len(hlog[w]) = 3
        /\ hmsg[hlog[w][1]].kind = "GetUser"
        /\ hmsg[hlog[w][1]].reply = "InvalidArgument"
        /\ hmsg[hlog[w][2]].kind = "GetUser"
        /\ hmsg[hlog[w][2]].reply = "NotFound"
        /\ hmsg[hlog[w][3]].reply = "Ok"

(***************************************************************************)
(* Properties of cache failures                                            *)
(***************************************************************************)
\* The instance's last call ended without the cache having executed it.
CacheFailed(o) == last[o].op # "none" /\ last[o].saw = "none"

\* C17: when the cache fails during acquire, release or check, the call
\* returns an explicit error: neither true / admitted nor false / denied (nor
\* the Ok(()) of a release).
C17_CacheFailureIsError ==
    /\ [](\A o \in Owners : CacheFailed(o) => last[o].ret = "err")
    /\ [][\A p \in RateProcs :
             CheckIoError(p) => /\ rret'[p] = "err_io"
                                /\ rret'[p] \notin {"admitted", "denied"}]_vars

C17_Witness ==
    /\ last["A"].op = "acquire" /\ last["A"].ret = "err"
    /\ last["B"].op = "release" /\ last["B"].ret = "err"
    /\ rret["p1"] = "err_io"

(***************************************************************************)
(* Properties of ActorPool::new                                            *)
(***************************************************************************)
\* C18: ActorPool::new with pool size N returns a pool of exactly N running
\* workers when every spawn succeeds, and returns an error and no pool, not
\* a partly filled one, at the first spawn that fails; no spawn is called
\* after that failure.
C18_AllOrNothing ==
    /\ [](/\ new_pc = "ok" =>
                /\ pool_size = new_n /\ spawned = new_n /\ new_i = new_n
                /\ \A w \in WorkerIds : w < pool_size => status[w] = "running"
          /\ new_pc = "err" => pool_size = 0 /\ new_i = spawned + 1
          /\ new_pc # "ok" => pool_size = 0)
    /\ [][new_pc = "err" => new_pc' = "err" /\ new_i' = new_i /\ spawned' = spawned]_vars

\* The second of three spawns failed: new returned the error, the third
\* spawn was never called.
C18_Witness == new_pc = "err" /\ new_n = 3 /\ new_i = 2 /\ spawned = 1

(***************************************************************************)
(* Properties of a worker's queue                                          *)
(***************************************************************************)
\* Dispatch r was put into its worker's queue (dispatches are issued, and so
\* enqueued, in the order of their numbers).
Enqueued(r) == rq_pc[r] # "new" /\ slot[r] # "unsent"

\* C20: a worker handles one message at a time and its queue in the order
\* of enqueueing: it takes a message only when no handler is running on it,
\* and the one it takes is the oldest of its queue, so the replies to two
\* dispatches of one worker are produced in enqueue order.
C20_SequentialFifo ==
    /\ [](\A r, q \in Reqs :
             /\ r < q /\ Enqueued(r) /\ Enqueued(q)
             /\ target[r] = target[q]
             /\ handled[q] \/ handling[target[q]] = q
             => handled[r])
    /\ [][\A w \in WorkerIds :
             Len(mailbox'[w]) < Len(mailbox[w]) =>
                 /\ handling[w] = 0
                 /\ mailbox'[w] = Tail(mailbox[w])
                 /\ \/ handling'[w] = Head(mailbox[w])
                    \/ handled'[Head(mailbox[w])]]_vars

\* Two workers are inside a handler at the same time.
C20_Witness ==
    \E w, v \in WorkerIds :
        /\ w # v
        /\ handling[w] # 0 /\ handling[v] # 0
        /\ target[handling[w]] = w /\ target[handling[v]] = v

(***************************************************************************)
(* Properties of the cursor under concurrent calls                         *)
(***************************************************************************)
\* How many completed calls of next_worker returned worker i.
TimesReturned(i) == Cardinality({k \in DOMAIN picks : picks[k] = i})

\* C21: concurrent calls of next_worker each obtain a cursor value of their
\* own (no increment is lost or duplicated): the values held by the calls in
\* flight differ, and once m calls have completed and none is in flight,
\* worker i of a pool of N has been returned as many times as there are
\* values c in 0 .. m-1 with c mod N = i.
C21_ConcurrentCallsCounted ==
    /\ \A t, u \in InFlight : t # u => fetched[t] # fetched[u]
    /\ current_index = Len(picks) + Cardinality(InFlight)
    /\ pool_size > 0 /\ InFlight = {} =>
          \A i \in 0 .. (pool_size - 1) :
              TimesReturned(i) =
                  Cardinality({c \in 0 .. (Len(picks) - 1) : c % pool_size = i})

\* Seven calls on a pool of three have completed, some of them overlapping
\* and returning out of the order of their cursor values.
C21_Witness ==
    /\ pool_size = 3 /\ overlapped /\ InFlight = {}
    /\ Len(picks) = 7
    /\ picks[1] = 1 /\ picks[2] = 0

(***************************************************************************)
(* Properties of the dispatch deadline                                     *)
(***************************************************************************)
\* What a dispatch can return: the worker's reply, DeadlineExceeded, or the
\* status of a failed enqueue or of a dropped reply slot.
DispatchResults == ReplyValues \cup {deadline_elapsed, enqueue_failed, reply_dropped}

\* C22: every dispatch returns no later than the deadline after its message
\* was enqueued, with the worker's reply, DeadlineExceeded or the status of
\* an enqueue or reply-slot failure; none waits forever, whether its worker
\* is stuck or has ended, and a call never waits on the enqueue itself.
C22_ReturnsByDeadline ==
    /\ [](\A r \in Reqs :
             /\ rq_pc[r] = "waiting" => waited[r] <= Deadline
             /\ rq_pc[r] = "done" => outcome[r] \in DispatchResults
             /\ rq_pc[r] \in {"new", "waiting", "done"})
    /\ \A r \in Reqs : (rq_pc[r] = "waiting") ~> (rq_pc[r] = "done")

\* A dispatch ran into its deadline on a stuck worker; the worker then
\* ended, and the next dispatch routed to it returned at once.
C22_Witness ==
    \E r, q \in Reqs :
        /\ TimedOut(r) /\ r \in aborted /\ written[r] = 0
        /\ EnqueueFailed(q) /\ target[q] = target[r]

\* A dispatch of this step: it left "new" in the step.
Dispatched(r) == rq_pc[r] = "new" /\ rq_pc'[r] # "new"

\* C23: the pool's worker set is fixed at construction and a terminated unit
\* is never replaced: the size never changes once set, a unit that is not
\* running stays as it is, the unit whose handler aborted is terminated,
\* every dispatch routed to a terminated unit ends at once with the enqueue
\* failure, and every dispatch routed to a running unit is enqueued to it.
C23_WorkerSetFixed ==
    /\ [](\A r \in aborted : status[target[r]] = "failed")
    /\ [][/\ pool_size # 0 => pool_size' = pool_size
          /\ \A w \in WorkerIds : status[w] # "running" => status'[w] = status[w]
          /\ \A r \in Reqs : Dispatched(r) =>
                IF status[target'[r]] = "running"
                THEN /\ rq_pc'[r] = "waiting"
                     /\ r = mailbox'[target'[r]][Len(mailbox'[target'[r]])]
                ELSE /\ rq_pc'[r] = "done"
                     /\ slot'[r] = "unsent"
                     /\ outcome'[r] = enqueue_failed
                     /\ mailbox' = mailbox]_vars

\* One unit of a pool of two has failed in a handler, and a dispatch routed
\* to the other unit afterwards was answered.
C23_Witness ==
    /\ pool_size = 2
    /\ 1 \in aborted
    /\ status[target[1]] = "failed"
    /\ target[2] # target[1]
    /\ status[target[2]] = "running"
    /\ rq_pc[2] = "done"
    /\ outcome[2] = "Ok"

\* The timestamps a window can hold when a check arrives: those of the last
\* window_ms ticks and those of clocks that are ahead.
WindowTimes == {t \in (0 - window_ms) .. window_ms : \E skew \in Skews : t <= skew}

\* The window of key after the script has run on a window of `members`.
WindowAfter(key, members, now) ==
    LET st == [store EXCEPT ![key] = Zset(members, window_ms)]
    IN  Members(RunScript(st, key, now, now - window_ms, window_ms, Limit).store, key)

Answered(p) == rpc[p] = "checking" /\ rpc'[p] = "idle" /\ rret'[p] # "err_io"

StartedBy(w) ==
    {r \in Reqs : /\ Enqueued(r)
                  /\ target[r] = w
                  /\ rq_kind[r] \in {"GetUser", "CreateUser"}
                  /\ (handled[r] \/ handling[w] = r \/ r \in aborted)}

\* Unit w takes the message of dispatch r from its queue in this step.
Takes(w, r) ==
    /\ mailbox[w] # <<>>
    /\ Head(mailbox[w]) = r
    /\ status[w] = "running"
    /\ handling[w] = 0
    /\ mailbox'[w] = Tail(mailbox[w])

Refused(o) ==
    /\ lpc[o] = "acquiring"
    /\ lpc'[o] = "idle"
    /\ last'[o].op = "acquire"
    /\ last'[o].ret = "false"

\* C27: an acquire that returns false leaves the record of its key as it
\* was, the same owner token with the same remaining ttl, whether the record
\* is another owner's or the caller's own.
C27_RefusedAcquireFrame ==
    [][\A o \in Owners :
          Refused(o) => /\ store[lock_key[o]].kind = "string"
                        /\ store'[lock_key[o]] = store[lock_key[o]]]_vars

\* A holder whose ttl has partly run down was refused a second acquire of
\* its own key, and another instance was refused the same key: the record
\* is still the holder's, with the ttl that was left.
C27_Witness ==
    \E o, p \in Owners :
        /\ p # o
        /\ lock_key[p] = lock_key[o]
        /\ last[o].op = "acquire" /\ last[o].ret = "false" /\ last[o].saw = o
        /\ last[p].op = "acquire" /\ last[p].ret = "false" /\ last[p].saw = o
        /\ Get(store, lock_key[o]) = o
        /\ store[lock_key[o]].pttl < LockTtl

\* The cache entry user:<id> is absent or is the text of the stored user.
CacheFresh ==
    \/ store[UserCacheKey].kind = "none"
    \/ /\ user_row # NoUser
       /\ Get(store, UserCacheKey) = to_string(user_row)

\* C28: once an update or delete execution has completed and no execution
\* on the user is under way, the cache entry user:<id> is absent or equal to
\* the stored user; and a get that began when no execution was under way,
\* with no update or delete begun since, has returned the stored user and
\* not an earlier or a deleted one.
C28_NoStaleEntryAfterWrite ==
    /\ (wr_completed /\ Quiescent) => CacheFresh
    /\ \A g \in GetProcs :
          (wr_completed /\ get_clean[g] /\ get_ret[g].tag = "Ok")
              => get_ret[g].user = user_row

\* The call of task t returns in this step.
NextWorkerReturns(t) == tpc[t] = "fetched" /\ tpc'[t] = "idle"

\* The last value of the cursor before it wraps: 2^w - 1.
UsizeMax == UsizeModulus - 1

\* C29: the call that fetched the cursor value 2^w - 1 returns index
\* (2^w - 1) mod N, and the call that fetched the following value returns
\* the next index in cyclic order, ((2^w - 1) mod N + 1) mod N.
C29_OrderKeptAtWrap ==
    [][\A t \in Tasks :
          NextWorkerReturns(t) =>
              LET index == picks'[Len(picks')]
              IN  /\ fetched[t] = UsizeMax => index = UsizeMax % pool_size
                  /\ fetched[t] = fetch_add(UsizeMax)
                        => index = ((UsizeMax % pool_size) + 1) % pool_size]_vars

\* The units the Actor::spawn calls of new have started that are running.
SpawnedRunning == {w \in WorkerIds : w < spawned /\ status[w] = "running"}

\* C30: when ActorPool::new has returned its error, none of the units it
\* had spawned before the failing spawn is running.
C30_NoUnitLeftRunning ==
    new_pc = "err" => SpawnedRunning = {}

====
